---- MODULE Spec2Model ----
(***************************************************************************)
(* Container codec and size-constrained recompression engine of            *)
(* src/vry_mobile.py: the signature-table FeedbackXOR cipher of            *)
(* PAKToolAdvanced ("gamepatch"), the marker-delimited repack of PAKTool   *)
(* ("zsdic"), the signature-list repack of MiniOBBUnpacker ("mini_obb")    *)
(* and the heuristic stream scanner and its repack.                        *)
(*                                                                         *)
(* Byte strings are sequences of numbers 0..255.  Python offsets are       *)
(* 0-based: At(data, i) is data[i], Slice(data, a, b) is data[a:b].        *)
(* The zstd and zlib libraries are outside the repository: a payload to    *)
(* compress is given by the outputs the library produces for it (one per   *)
(* level), a stream to inflate by the outcome the library reports.         *)
(***************************************************************************)
EXTENDS Integers, Sequences, FiniteSets, TLC

VARIABLES
    fam,            \* which tool runs: "xor", "zsdic", "mini", "game", "unpack", "call"
    pc,             \* position of the running tool in its code
    \* ---- FeedbackXOR round trip (PAKToolAdvanced) ----
    xc,             \* encoded_original
    xp,             \* decoded_modified
    xedits,         \* number of bytes the caller has edited in xp
    xenc,           \* xor_reencode_from_original(xc, xp)
    xback,          \* xor_decode_with_feedback(xenc)
    \* ---- every repack ----
    out_file,       \* the container written out, NotWritten before
    \* ---- PAKTool.repack (zsdic) ----
    pak_file,       \* the bytes of the original PAK at pak_path
    pak_data,       \* the working bytearray
    dictionary,     \* find_dictionary's dictionary
    dat_files,      \* find_dat_files' list, computed once on the original
    zseen,          \* stems of the edited files the loop has taken
    zwritten,       \* indexes of the segments replaced so far
    zlast,          \* what the last loop iteration did
    successful_repacks,
    failed_repacks,
    \* ---- MiniOBBUnpacker.repack_mini_obb ----
    original_data,  \* the bytes of the original mini_obb.pak
    temp_output,    \* the bytes of the temporary output file
    offsets,        \* find_all_occurrences on the original, computed once
    mseen,          \* stems of the .uexp files the loop has taken
    mwritten,       \* start offsets of the blocks rewritten so far
    mlast,          \* what the last loop iteration did
    modified_count,
    \* ---- PAKToolAdvanced: unpack_pak_advanced, then repack_pak_advanced ----
    data_enc_orig,  \* the bytes of the original gamepatch PAK
    decoded,        \* the decoded buffer: scanned, then patched by the repack
    pos,            \* scan_and_extract_smart's scan position
    rejected,       \* offsets whose trial decompression is known to fail
    iterations,     \* passes of the scan loop that went on to a next pass
    entries,        \* the manifest entries recorded so far
    eidx,           \* number of manifest entries the repack loop has taken
    greps,          \* per entry taken: what the repack loop did with it
    repacked_cnt,
    \* ---- PAKTool.unpack ----
    dict_file,      \* tmp/dictionary.bin, NotWritten before
    uidx,           \* number of DAT files the unpack loop has taken
    unpack_files,   \* the files written to the unpack directory, in order
    \* ---- one call of a function ----
    args,           \* the arguments of the call
    ret,            \* what the call returned
    \* ---- the license server (src/server.py) ----
    licenses,       \* the rows of the licenses table
    last_id,        \* the AUTOINCREMENT sequence: the largest id ever given
    reqs,           \* per client: its /api/validate request between SELECT and UPDATE
    last,           \* the request the last step served and the response it sent
    barred,         \* per presented key: revoked or deleted by a completed admin request
    granted         \* per stored key: the non-empty HWIDs answered valid=True

xvars == <<xc, xp, xedits, xenc, xback>>
zvars == <<pak_file, pak_data, dictionary, dat_files, zseen, zwritten, zlast,
           successful_repacks, failed_repacks>>
mvars == <<original_data, temp_output, offsets, mseen, mwritten, mlast, modified_count>>
gvars == <<data_enc_orig, decoded, pos, rejected, iterations, entries, eidx, greps,
           repacked_cnt>>
uvars == <<dict_file, uidx, unpack_files>>
cvars == <<args, ret>>
svars == <<licenses, last_id, reqs, last, barred, granted>>
vars == <<fam, pc, out_file, xvars, zvars, mvars, gvars, uvars, cvars, svars>>

\* what a tool leaves alone: the state of the other tools
notX == <<out_file, zvars, mvars, gvars, uvars, cvars, svars>>
notZ == <<xvars, mvars, gvars, uvars, cvars, svars>>
notM == <<xvars, zvars, gvars, uvars, cvars, svars>>
notG == <<xvars, zvars, mvars, uvars, cvars, svars>>
notU == <<out_file, xvars, mvars, gvars, cvars, svars>>
notC == <<out_file, xvars, zvars, mvars, gvars, uvars, svars>>
notS == <<pc, out_file, xvars, zvars, mvars, gvars, uvars, cvars>>

(***************************************************************************)
(* Bytes                                                                   *)
(***************************************************************************)
Byte == 0..255

RECURSIVE BitXor(_, _, _)
BitXor(a, b, n) ==
    IF n = 0 THEN 0
    ELSE (((a % 2) + (b % 2)) % 2) + 2 * BitXor(a \div 2, b \div 2, n - 1)

\* Python's a ^ b on two bytes
Xor(a, b) == BitXor(a, b, 8)

\* the empty byte string, also used for None where a byte string is expected
NoBytes == <<>>

At(data, i) == data[i + 1]

Min(a, b) == IF a < b THEN a ELSE b
Max(a, b) == IF a > b THEN a ELSE b

\* data[a:b] for 0 <= a, with Python's clipping at the end of data
Slice(data, a, b) ==
    LET hi == Min(b, Len(data))
    IN  IF a >= hi THEN <<>> ELSE [k \in 1..(hi - a) |-> data[a + k]]

\* b'\x00' * n
Zeros(n) == [k \in 1..n |-> 0]

\* every sequence over S of length lo..hi
SeqsOf(S, lo, hi) == UNION {[1..n -> S] : n \in lo..hi}

(***************************************************************************)
(* PAKToolAdvanced: signature table and FeedbackXOR                        *)
(***************************************************************************)
\* self.sig2key = {9DC7: E55B4ED1}
SigBytes == <<157, 199>>
SigKey == <<229, 91, 78, 209>>

\* is_sig_at: the key of the signature at data[i:i+2], NoBytes for None
is_sig_at(data, i) ==
    IF i + 2 > Len(data) THEN NoBytes
    ELSE IF Slice(data, i, i + 2) = SigBytes THEN SigKey ELSE NoBytes

\* the while loop of xor_decode_with_feedback from position i on
RECURSIVE DecodeLoop(_, _, _, _, _, _)
DecodeLoop(data, i, out, key, seg_pos, seg_start_out) ==
    IF i >= Len(data) THEN out
    ELSE
        LET k == is_sig_at(data, i)
            key1 == IF k # NoBytes THEN k ELSE key
            seg_pos1 == IF k # NoBytes THEN 0 ELSE seg_pos
            start1 == IF k # NoBytes THEN Len(out) ELSE seg_start_out
        IN  IF key1 # NoBytes
            THEN LET o == IF seg_pos1 < 4
                          THEN Xor(At(data, i), At(key1, seg_pos1))
                          ELSE Xor(At(data, i), At(out, start1 + (seg_pos1 - 4)))
                 IN  DecodeLoop(data, i + 1, Append(out, o), key1, seg_pos1 + 1, start1)
            ELSE DecodeLoop(data, i + 1, Append(out, At(data, i)), key1, seg_pos1, start1)

xor_decode_with_feedback(data) == DecodeLoop(data, 0, <<>>, NoBytes, 0, 0)

\* the mutant: the decoded bytes are returned as they are
xor_reencode_from_original_Copy(encoded_original, decoded_modified) == decoded_modified

\* the for loop of xor_reencode_from_original from position i on
RECURSIVE ReencodeLoop(_, _, _, _, _, _, _)
ReencodeLoop(encoded_original, decoded_modified, i, out_enc, key, seg_pos, seg_start_out) ==
    IF i >= Len(decoded_modified) THEN out_enc
    ELSE
        LET k == is_sig_at(encoded_original, i)
            key1 == IF k # NoBytes THEN k ELSE key
            seg_pos1 == IF k # NoBytes THEN 0 ELSE seg_pos
            start1 == IF k # NoBytes THEN i ELSE seg_start_out
        IN  IF key1 # NoBytes
            THEN LET b == IF seg_pos1 < 4
                          THEN Xor(At(decoded_modified, i), At(key1, seg_pos1))
                          ELSE Xor(At(decoded_modified, i),
                                   At(decoded_modified, start1 + (seg_pos1 - 4)))
                 IN  ReencodeLoop(encoded_original, decoded_modified, i + 1,
                                  Append(out_enc, b), key1, seg_pos1 + 1, start1)
            ELSE ReencodeLoop(encoded_original, decoded_modified, i + 1,
                              Append(out_enc, At(decoded_modified, i)), key1, seg_pos1, start1)

\* the assert of line 3458 makes unequal lengths raise: callers pass equal lengths
xor_reencode_from_original(encoded_original, decoded_modified) ==
    ReencodeLoop(encoded_original, decoded_modified, 0, <<>>, NoBytes, 0, 0)

(***************************************************************************)
(* PAKTool: marker-delimited containers ("zsdic")                          *)
(***************************************************************************)
DICT_MARKER == <<55, 164, 48, 236>>      \* 37 A4 30 EC
DAT_MAGIC == <<81, 204, 86, 132>>        \* 51 CC 56 84
XOR_KEY == 121                           \* 0x79
DICT_SIZE == 1048576                     \* 1024 * 1024
\* the magic every zstd frame starts with (MiniOBBUnpacker.expected_magic)
expected_magic == <<40, 181, 47, 253>>   \* 28 B5 2F FD

\* bytes.find(pat, start): the lowest offset >= start where pat occurs, or -1
RECURSIVE Find(_, _, _)
Find(data, pat, start) ==
    IF start + Len(pat) > Len(data) THEN -1
    ELSE IF Slice(data, start, start + Len(pat)) = pat THEN start
    ELSE Find(data, pat, start + 1)

\* the mutant: a missing marker is not an error, the whole buffer is scanned
find_dictionary_NoRaise(data) ==
    LET dict_pos == Find(data, DICT_MARKER, 0)
    IN  IF dict_pos = -1
        THEN [found |-> TRUE, dictionary |-> NoBytes, dict_pos |-> Len(data)]
        ELSE [found |-> TRUE,
              dictionary |-> Slice(data, dict_pos, dict_pos + DICT_SIZE),
              dict_pos |-> dict_pos]

\* the mutant: the dictionary starts after the 4-byte marker
find_dictionary_AfterMarker(data) ==
    LET dict_pos == Find(data, DICT_MARKER, 0)
    IN  IF dict_pos = -1
        THEN [found |-> FALSE, dictionary |-> NoBytes, dict_pos |-> -1]
        ELSE [found |-> TRUE,
              dictionary |-> Slice(data, dict_pos + 4, dict_pos + 4 + DICT_SIZE),
              dict_pos |-> dict_pos]

\* find_dictionary: found = FALSE is the ValueError of line 975
find_dictionary(data) ==
    LET dict_pos == Find(data, DICT_MARKER, 0)
    IN  IF dict_pos = -1
        THEN [found |-> FALSE, dictionary |-> NoBytes, dict_pos |-> -1]
        ELSE [found |-> TRUE,
              dictionary |-> Slice(data, dict_pos, dict_pos + DICT_SIZE),
              dict_pos |-> dict_pos]

\* the while loop of find_dat_files
RECURSIVE DatLoop(_, _, _, _)
DatLoop(data, dict_pos, p, found) ==
    IF ~(p < dict_pos) THEN found
    ELSE
        LET magic_pos == Find(data, DAT_MAGIC, p)
        IN  IF magic_pos = -1 \/ magic_pos >= dict_pos THEN found
            ELSE
                LET next_magic == Find(data, DAT_MAGIC, magic_pos + 4)
                    dat_size == IF next_magic = -1 \/ next_magic >= dict_pos
                                THEN dict_pos - magic_pos
                                ELSE next_magic - magic_pos
                IN  DatLoop(data, dict_pos, magic_pos + 4,
                            Append(found, [index |-> Len(found),
                                           position |-> magic_pos,
                                           size |-> dat_size,
                                           data |-> Slice(data, magic_pos, magic_pos + dat_size)]))

\* the mutant: the scan starts one byte late
find_dat_files_FromOne(data, dict_pos) == DatLoop(data, dict_pos, 1, <<>>)

find_dat_files(data, dict_pos) == DatLoop(data, dict_pos, 0, <<>>)

\* xor_decrypt: every byte XOR 0x79
\* the mutant: the key is added instead of XORed
xor_decrypt_Add(data) == [k \in 1..Len(data) |-> (data[k] + XOR_KEY) % 256]

xor_decrypt(data) == [k \in 1..Len(data) |-> Xor(data[k], XOR_KEY)]

\* data[-4:]
Last4(data) == Slice(data, Max(Len(data) - 4, 0), Len(data))

(***************************************************************************)
(* File stems and int()                                                    *)
(***************************************************************************)
Digits == {"0", "1", "2", "3", "4", "5", "6", "7", "8", "9"}

DigitVal(c) ==
    CASE c = "0" -> 0 [] c = "1" -> 1 [] c = "2" -> 2 [] c = "3" -> 3
      [] c = "4" -> 4 [] c = "5" -> 5 [] c = "6" -> 6 [] c = "7" -> 7
      [] c = "8" -> 8 [] c = "9" -> 9

RECURSIVE LStrip0(_)
LStrip0(s) == IF s # <<>> /\ Head(s) = "0" THEN LStrip0(Tail(s)) ELSE s

IsDigits(s) == s # <<>> /\ \A k \in 1..Len(s) : s[k] \in Digits

RECURSIVE DecVal(_)
DecVal(s) == IF s = <<>> THEN 0
             ELSE 10 * DecVal(SubSeq(s, 1, Len(s) - 1)) + DigitVal(s[Len(s)])

\* int(s) on strings of digits with an optional sign: ok = FALSE is ValueError
IntOf(s) ==
    IF s # <<>> /\ Head(s) = "-"
    THEN IF IsDigits(Tail(s)) THEN [ok |-> TRUE, val |-> 0 - DecVal(Tail(s))]
         ELSE [ok |-> FALSE, val |-> 0]
    ELSE IF IsDigits(s) THEN [ok |-> TRUE, val |-> DecVal(s)]
         ELSE [ok |-> FALSE, val |-> 0]

\* int(filename.lstrip('0')) if filename != '0000000' else 0
dat_number(stem) ==
    IF stem = <<"0", "0", "0", "0", "0", "0", "0">>
    THEN [ok |-> TRUE, val |-> 0]
    ELSE IntOf(LStrip0(stem))

(***************************************************************************)
(* zstd: what the library returns for an edited payload.  An edited        *)
(* payload is given by its compressed outputs: `small` at the levels       *)
(* from..to, `large` at the others, `mt` with threads=-1, and a level      *)
(* `bad` (0: none) at which the call raises.                               *)
(***************************************************************************)
Raised == [raised |-> TRUE, data |-> NoBytes]

\* ZstdCompressor(level=level, dict_data=dict_obj).compress(edited_data)
ZstdCompress(edited_data, level, dict) ==
    IF level = edited_data.bad THEN Raised
    ELSE IF edited_data.from <= level /\ level <= edited_data.to
         THEN [raised |-> FALSE, data |-> edited_data.small]
         ELSE [raised |-> FALSE, data |-> edited_data.large]

Payload(small, large, from, to, bad) ==
    [small |-> small, large |-> large, mt |-> large, from |-> from, to |-> to, bad |-> bad]

NoFit == [level |-> 0, data |-> NoBytes]

\* the mutant: the loop has no break, the last level that fits wins
RECURSIVE FirstFit_Last(_, _, _, _)
FirstFit_Last(edited_data, dict, required_size, level) ==
    IF level > 22 THEN NoFit
    ELSE
        LET r == ZstdCompress(edited_data, level, dict)
            rest == FirstFit_Last(edited_data, dict, required_size, level + 1)
        IN  IF ~r.raised /\ Len(r.data) <= required_size /\ rest.level = 0
            THEN [level |-> level, data |-> r.data]
            ELSE rest

\* the levels at which the loop of lines 1178-1191 calls compress
RECURSIVE TriedLevels(_, _, _, _)
TriedLevels(edited_data, dict, required_size, level) ==
    IF level > 22 THEN {}
    ELSE
        LET r == ZstdCompress(edited_data, level, dict)
        IN  IF ~r.raised /\ Len(r.data) <= required_size
            THEN {level}
            ELSE {level} \cup TriedLevels(edited_data, dict, required_size, level + 1)

\* for level in range(1, 23): the first level whose output fits, a level
\* that raises is skipped (lines 1178-1191)
RECURSIVE FirstFit(_, _, _, _)
FirstFit(edited_data, dict, required_size, level) ==
    IF level > 22 THEN NoFit
    ELSE
        LET r == ZstdCompress(edited_data, level, dict)
        IN  IF r.raised THEN FirstFit(edited_data, dict, required_size, level + 1)
            ELSE IF Len(r.data) <= required_size
                 THEN [level |-> level, data |-> r.data]
                 ELSE FirstFit(edited_data, dict, required_size, level + 1)

\* lines 1201-1206: pad with null bytes up to required_size
ZeroPad(compressed_data, required_size) ==
    IF Len(compressed_data) < required_size
    THEN compressed_data \o [k \in 1..(required_size - Len(compressed_data)) |-> 0]
    ELSE compressed_data

\* the mutant: the trailer is XOR-transformed with the payload
NewDatBlock_XorTrailer(padded, checksum) == xor_decrypt(padded \o checksum)

\* lines 1208-1213: XOR encrypt, then add the checksum
NewDatBlock(padded, checksum) == xor_decrypt(padded) \o checksum

\* the mutant: the block is inserted at start_pos instead of replacing the span
Splice_Insert(buf, a, b, new) == Slice(buf, 0, a) \o new \o Slice(buf, a, Len(buf))

\* the mutant: the span is taken one byte too far
Splice_Shifted(buf, a, b, new) ==
    Slice(buf, 0, a + 1) \o new \o Slice(buf, b + 1, Len(buf))

\* bytearray slice assignment buf[a:b] = new
Splice(buf, a, b, new) == Slice(buf, 0, a) \o new \o Slice(buf, b, Len(buf))

\* the mutant: a segment that cannot be fitted is blanked
OnOverflow_Blank(data, original_dat) ==
    Splice(data, original_dat.position, original_dat.position + original_dat.size,
           Zeros(original_dat.size))

\* lines 1193-1196: no level fits: the working buffer is left as it is
OnOverflow(data, original_dat) == data

ZResult(status, index, level, payload, data) ==
    [status |-> status, index |-> index, level |-> level,
     payload |-> payload, pak_data |-> data]

\* one iteration of the for loop of PAKTool.repack over an edited file
RepackFile(data, dats, dict, stem, edited_data) ==
    LET n == dat_number(stem)
        dat_index == n.val - 1
    IN  IF ~n.ok THEN ZResult("invalid_name", -1, 0, NoBytes, data)
        ELSE IF dat_index < 0 \/ dat_index >= Len(dats)
        THEN ZResult("out_of_range", dat_index, 0, NoBytes, data)
        ELSE
            LET original_dat == dats[dat_index + 1]
                original_size == original_dat.size
                required_size == original_size - 4
                checksum == Last4(original_dat.data)
                fit == FirstFit(edited_data, dict, required_size, 1)
                padded == ZeroPad(fit.data, required_size)
                new_dat_block == NewDatBlock(padded, checksum)
                start_pos == original_dat.position
                end_pos == start_pos + original_dat.size
            IN  IF fit.level = 0
                THEN ZResult("overflow", dat_index, 0, NoBytes,
                             OnOverflow(data, original_dat))
                ELSE IF Len(new_dat_block) # original_size
                THEN ZResult("size_mismatch", dat_index, fit.level, padded, data)
                ELSE ZResult("replaced", dat_index, fit.level, padded,
                             Splice(data, start_pos, end_pos, new_dat_block))

(***************************************************************************)
(* MiniOBBUnpacker: signature-list containers ("mini_obb")                 *)
(***************************************************************************)
signature == <<205, 238, 97, 44>>        \* CD EE 61 2C
SKIP_MAGIC == <<80, 42, 77, 24>>         \* 50 2A 4D 18
FRAME_CAP == 1048576                     \* 1024 * 1024
CHUNK_SIZE == 65536                      \* 64 * 1024

\* find_xor_key
find_xor_key(sig4, magic4) == [k \in 1..4 |-> Xor(sig4[k], magic4[k])]

\* the mutant: the key is repeated, without feedback
xor_feedback_block_Static(data, key) ==
    [k \in 1..Len(data) |-> Xor(data[k], key[((k - 1) % Len(key)) + 1])]

\* the for loop of xor_feedback_block; prev holds plaintext bytes
RECURSIVE FeedbackLoop(_, _, _, _, _)
FeedbackLoop(data, key, i, out, prev) ==
    IF i >= Len(data) THEN out
    ELSE IF i < Len(key)
    THEN LET o == Xor(At(data, i), At(key, i))
         IN  FeedbackLoop(data, key, i + 1, Append(out, o), [prev EXCEPT ![i + 1] = o])
    ELSE LET k == i % Len(key)
             o == Xor(At(data, i), At(prev, k))
         IN  FeedbackLoop(data, key, i + 1, Append(out, o), [prev EXCEPT ![k + 1] = o])

xor_feedback_block(data, key) == FeedbackLoop(data, key, 0, <<>>, Zeros(Len(key)))

\* find_all_occurrences: re.finditer's matches, left to right, not overlapping
RECURSIVE FindAllFrom(_, _, _)
FindAllFrom(data, pattern, start) ==
    LET i == Find(data, pattern, start)
    IN  IF i = -1 THEN <<>>
        ELSE <<i>> \o FindAllFrom(data, pattern, i + Len(pattern))

find_all_occurrences(data, pattern) == FindAllFrom(data, pattern, 0)

\* struct.pack('<I', n)
PackLE32(n) ==
    <<n % 256, (n \div 256) % 256, (n \div 65536) % 256, (n \div 16777216) % 256>>

\* the while loop of add_skippable_padding
RECURSIVE PadLoop(_, _)
PadLoop(result, pad_len) ==
    IF ~(pad_len > 0) THEN [result |-> result, pad_len |-> pad_len]
    ELSE
        LET frame_content_len == Min(pad_len - 8, FRAME_CAP)
        IN  IF frame_content_len < 0
            THEN PadLoop(result \o SKIP_MAGIC \o PackLE32(0), pad_len - 8)
            ELSE PadLoop(result \o SKIP_MAGIC \o PackLE32(frame_content_len)
                             \o Zeros(frame_content_len),
                         pad_len - (8 + frame_content_len))

\* the mutant: the frame that overshoots is not trimmed
add_skippable_padding_NoTrim(compressed, pad_len) ==
    IF pad_len <= 0 THEN compressed ELSE PadLoop(compressed, pad_len).result

add_skippable_padding(compressed, pad_len) ==
    IF pad_len <= 0 THEN compressed
    ELSE
        LET r == PadLoop(compressed, pad_len)
        IN  IF r.pad_len < 0
            THEN Slice(r.result, 0, Len(r.result) + r.pad_len)
            ELSE r.result

\* ZstdCompressor(level=22, threads=-1).compress(data)
ZstdCompressMT(data) == [raised |-> FALSE, data |-> data.mt]

\* the levels of range(22, 0, -3), from `level` down
RECURSIVE TargetLoop(_, _, _)
TargetLoop(data, target_size, level) ==
    IF level < 1
    THEN LET c == ZstdCompressMT(data)
         IN  IF Len(c.data) <= target_size
             THEN [kind |-> "ok", level |-> 22,
                   data |-> add_skippable_padding(c.data, target_size - Len(c.data))]
             ELSE [kind |-> "none", level |-> 0, data |-> NoBytes]
    ELSE
        LET c == ZstdCompress(data, level, NoBytes)
        IN  IF c.raised THEN [kind |-> "raise", level |-> level, data |-> NoBytes]
            ELSE IF Len(c.data) <= target_size
            THEN [kind |-> "ok", level |-> level,
                  data |-> add_skippable_padding(c.data, target_size - Len(c.data))]
            ELSE TargetLoop(data, target_size, level - 3)

\* compress_to_target_size: kind "none" is None, "raise" an exception of zstd
compress_to_target_size(data, target_size) ==
    IF target_size <= 0 THEN [kind |-> "none", level |-> 0, data |-> NoBytes]
    ELSE TargetLoop(data, target_size, 22)

\* lines 4116-4134: the encoding loop over slices of chunk_size bytes; prev
\* starts as the key and then holds the last plaintext byte of each lane
RECURSIVE EncodeSlice(_, _, _, _, _)
EncodeSlice(src_slice, base_idx, j, prev, out_slice) ==
    IF j >= Len(src_slice) THEN [out |-> out_slice, prev |-> prev]
    ELSE
        LET idx == (base_idx + j) % Len(prev)
            r == Xor(At(src_slice, j), At(prev, idx))
        IN  EncodeSlice(src_slice, base_idx, j + 1,
                        [prev EXCEPT ![idx + 1] = At(src_slice, j)],
                        Append(out_slice, r))

RECURSIVE EncodeLoop(_, _, _, _, _)
EncodeLoop(compressed_content, chunk_size, ptr, prev, written) ==
    IF ~(ptr < Len(compressed_content)) THEN written
    ELSE
        LET slice_len == Min(chunk_size, Len(compressed_content) - ptr)
            src_slice == Slice(compressed_content, ptr, ptr + slice_len)
            e == EncodeSlice(src_slice, ptr % Len(prev), 0, prev, <<>>)
        IN  EncodeLoop(compressed_content, chunk_size, ptr + slice_len,
                       e.prev, written \o e.out)

EncodeBlock(compressed_content, key, chunk_size) ==
    EncodeLoop(compressed_content, chunk_size, 0, key, <<>>)

\* the mutant: the write truncates the file after the bytes written
WriteAt_Truncate(file, p, bytes) == Slice(file, 0, p) \o bytes

\* outfh.seek(p); outfh.write(bytes) on a file opened "r+b"
WriteAt(file, p, bytes) ==
    Slice(file, 0, p) \o bytes \o Slice(file, p + Len(bytes), Len(file))

\* seq[i] with Python's negative indexes; ok = FALSE is IndexError
PyIndex(seq, i) ==
    IF 0 <= i /\ i < Len(seq) THEN [ok |-> TRUE, val |-> seq[i + 1]]
    ELSE IF i < 0 /\ 0 - i <= Len(seq) THEN [ok |-> TRUE, val |-> seq[Len(seq) + i + 1]]
    ELSE [ok |-> FALSE, val |-> -1]

MResult(status, index, start, size, content, file) ==
    [status |-> status, index |-> index, start |-> start, size |-> size,
     content |-> content, temp_output |-> file]

\* lines 4078-4141: the loop body of repack_mini_obb for one .uexp file
RepackUexp(file, original, offs, stem, modified_content) ==
    LET n == IntOf(stem)
        file_index == n.val
        so == PyIndex(offs, file_index)
        start_offset == so.val
        eo == IF file_index + 1 < Len(offs) THEN PyIndex(offs, file_index + 1)
              ELSE [ok |-> TRUE, val |-> Len(original)]
        end_offset == eo.val
        original_chunk_size == end_offset - start_offset
        c == compress_to_target_size(modified_content, original_chunk_size)
        sig4 == Slice(original, start_offset, start_offset + 4)
        key == find_xor_key(sig4, expected_magic)
    IN  IF ~n.ok THEN MResult("error", -1, -1, 0, NoBytes, file)
        ELSE IF file_index >= Len(offs)
        THEN MResult("out_of_range", file_index, -1, 0, NoBytes, file)
        ELSE IF ~so.ok \/ ~eo.ok
        THEN MResult("error", file_index, -1, 0, NoBytes, file)
        ELSE IF c.kind = "none"
        THEN MResult("overflow", file_index, start_offset, original_chunk_size, NoBytes, file)
        ELSE IF c.kind = "raise"
        THEN MResult("error", file_index, start_offset, original_chunk_size, NoBytes, file)
        ELSE IF Len(sig4) < 4
        THEN MResult("short_sig", file_index, start_offset, original_chunk_size, c.data, file)
        ELSE MResult("written", file_index, start_offset, original_chunk_size, c.data,
                     WriteAt(file, start_offset, EncodeBlock(c.data, key, CHUNK_SIZE)))

(***************************************************************************)
(* PAKToolAdvanced: heuristic stream scanner and its repack ("gamepatch")  *)
(***************************************************************************)
gzip_header == <<31, 139>>               \* 1F 8B
min_result_size == 32
max_offset_try == 8

\* is_valid_zlib_header
is_valid_zlib_header(b1, b2) ==
    IF (b1 % 16) # 8 THEN FALSE
    ELSE ((b1 * 256 + b2) % 31) = 0

\* find_next_candidate: the first 0x78 or 1F 8B at or after p, or -1
find_next_candidate(data, p) ==
    LET i == Find(data, <<120>>, p)
        j == Find(data, gzip_header, p)
    IN  IF i # -1 /\ j # -1 THEN Min(i, j)
        ELSE IF i # -1 THEN i
        ELSE IF j # -1 THEN j
        ELSE -1

\* the mode try_decompress_at inflates offset s with: the header checks of
\* lines 3510-3521, "none" when neither mode passes them
ModeAt(buf, s) ==
    IF At(buf, s) = 120 /\ is_valid_zlib_header(At(buf, s), At(buf, s + 1)) THEN "zlib"
    ELSE IF ~(s + 1 >= Len(buf)) /\ At(buf, s) = 31 /\ At(buf, s + 1) = 139 THEN "gzip"
    ELSE "none"

\* what zlib reports for buf[s:]: an exception; the stream does not end in
\* the buffer (everything is consumed); or it ends after `consumed` bytes
\* with a result of reslen bytes.  A report of 0 consumed bytes is what the
\* test of line 3529 guards against.
InflateOutcomes(buf, s) ==
    {[raised |-> TRUE, eof |-> FALSE, consumed |-> 0, reslen |-> 0],
     [raised |-> FALSE, eof |-> FALSE, consumed |-> Len(buf) - s, reslen |-> min_result_size],
     [raised |-> FALSE, eof |-> TRUE, consumed |-> 0, reslen |-> min_result_size],
     [raised |-> FALSE, eof |-> TRUE, consumed |-> 1, reslen |-> 0]}
    \cup [raised : {FALSE}, eof : {TRUE}, consumed : 1..(Len(buf) - s),
          reslen : {min_result_size}]

\* the mutant: a stream that consumed nothing is accepted
Accepted_NoConsumedCheck(o) ==
    ~o.raised /\ o.eof /\ ~(o.reslen < min_result_size)

\* lines 3527-3531: the outcome is returned as a trial
Accepted(o) ==
    ~o.raised /\ o.eof /\ ~(o.consumed <= 0 \/ o.reslen < min_result_size)

\* the offsets start..start+max_offset that try_decompress_at inflates
TrialOffsets(buf, start, max_offset) ==
    {s \in start..(start + max_offset) : ~(s >= Len(buf) - 2) /\ ModeAt(buf, s) # "none"}

\* try_decompress_at, from offset ofs on; inflate maps an offset to what zlib
\* reports there
RECURSIVE TrialLoop(_, _, _, _, _)
TrialLoop(buf, start, max_offset, inflate, ofs) ==
    LET s == start + ofs
    IN  IF ofs > max_offset \/ s >= Len(buf) - 2
        THEN [found |-> FALSE, consumed |-> 0, mode |-> "none", ofs |-> 0]
        ELSE IF ModeAt(buf, s) # "none" /\ Accepted(inflate[s])
        THEN [found |-> TRUE, consumed |-> inflate[s].consumed,
              mode |-> ModeAt(buf, s), ofs |-> ofs]
        ELSE TrialLoop(buf, start, max_offset, inflate, ofs + 1)

try_decompress_at(buf, start, max_offset, inflate) ==
    TrialLoop(buf, start, max_offset, inflate, 0)

\* the mutant: the scan resumes at the candidate, not at the stream's start
NextPos_FromCand(cand, ofs, consumed) == cand + consumed

\* line 3647: pos = start_pos + consumed, with start_pos = cand + ofs
NextPos(cand, ofs, consumed) == (cand + ofs) + consumed

\* zlib.compress(raw, 9) and gzip.GzipFile: the header of the mode, then the
\* deflate body the library produces for raw
compress_by_mode(raw, mode) ==
    IF mode = "zlib" THEN <<120, 218>> \o raw.body
    ELSE IF mode = "gzip" THEN gzip_header \o raw.body
    ELSE <<120, 218>> \o raw.body

\* the mutant: the zero fill runs one byte past the slot
PatchEntry_Overrun(buf, start, consumed, comp) ==
    LET b1 == Splice(buf, start, start + Len(comp), comp)
    IN  IF Len(comp) < consumed
        THEN Splice(b1, start + Len(comp), start + consumed + 1,
                    Zeros(consumed - Len(comp) + 1))
        ELSE b1

\* the mutant: the remainder of the slot is not zero-filled
PatchEntry_NoFill(buf, start, consumed, comp) ==
    Splice(buf, start, start + Len(comp), comp)

\* lines 3756-3758: splice comp at start and zero the remainder of the slot
PatchEntry(buf, start, consumed, comp) ==
    LET b1 == Splice(buf, start, start + Len(comp), comp)
    IN  IF Len(comp) < consumed
        THEN Splice(b1, start + Len(comp), start + consumed, Zeros(consumed - Len(comp)))
        ELSE b1

(***************************************************************************)
(* FeedbackXOR round trip: decode, edit, re-encode, decode again           *)
(***************************************************************************)
MaxXorLen == 4
MaxXorEdits == 2

\* ciphertext bytes: the two signature bytes and two others
XorCipherBytes == {0, 157, 199}
\* plaintext bytes an edit writes: zlib header bytes 78 9C / 78 DA, zero, and
\* the signature bytes themselves
XorPlainBytes == {0, 120, 218, 157, 199}

NotWritten == [written |-> FALSE, data |-> NoBytes]
Written(data) == [written |-> TRUE, data |-> data]

ZNone == [status |-> "none", index |-> -1, level |-> 0, payload |-> NoBytes]

\* the state of a tool that does not run
IdleX == xc = NoBytes /\ xp = NoBytes /\ xedits = 0 /\ xenc = NoBytes /\ xback = NoBytes
IdleZ ==
    /\ pak_file = NoBytes /\ pak_data = NoBytes /\ dictionary = NoBytes
    /\ dat_files = <<>> /\ zseen = {} /\ zwritten = {} /\ zlast = ZNone
    /\ successful_repacks = 0 /\ failed_repacks = 0

MNone == [status |-> "none", index |-> -1, start |-> -1, size |-> 0, content |-> NoBytes]

IdleM ==
    /\ original_data = NoBytes /\ temp_output = NoBytes /\ offsets = <<>>
    /\ mseen = {} /\ mwritten = {} /\ mlast = MNone /\ modified_count = 0

IdleG ==
    /\ data_enc_orig = NoBytes /\ decoded = NoBytes /\ pos = 0 /\ rejected = {}
    /\ iterations = 0
    /\ entries = <<>> /\ eidx = 0 /\ greps = <<>> /\ repacked_cnt = 0

IdleU == dict_file = NotWritten /\ uidx = 0 /\ unpack_files = <<>>

NoCall == [f |-> "none"]

IdleC == args = NoCall /\ ret = NoCall

\* a client that has no request between its SELECT and its UPDATE
NoRequest == [st |-> "idle"]

\* the two clients whose requests the server's threads serve at once
Clients == {"c1", "c2"}

\* no request served yet
NoResponse == [op |-> "none"]

\* two keys of the RIXK-XXXX-XXXX-XXXX form: one letter stands for one key
KeyA == <<65>>
KeyB == <<66>>

\* the keys requests present: the first key, as it is and with a leading
\* blank; the second key is another customer's
RawKeys == {KeyA, <<32>> \o KeyA}

\* the keys secrets.token_hex produces
GenKeys == {KeyA, KeyB}

IdleS ==
    /\ licenses = {} /\ last_id = 0
    /\ reqs = [c \in Clients |-> NoRequest]
    /\ last = NoResponse
    /\ barred = [k \in RawKeys |-> "no"]
    /\ granted = [k \in GenKeys |-> {}]

InitXor ==
    /\ fam = "xor"
    /\ pc = "decode"
    /\ xc \in SeqsOf(XorCipherBytes, 1, MaxXorLen)
    /\ xp = NoBytes
    /\ xedits = 0
    /\ xenc = NoBytes
    /\ xback = NoBytes
    /\ out_file = NotWritten
    /\ IdleZ /\ IdleM /\ IdleG /\ IdleU /\ IdleC /\ IdleS

XDecode ==
    /\ fam = "xor" /\ pc = "decode"
    /\ xp' = xor_decode_with_feedback(xc)
    /\ pc' = "edit"
    /\ UNCHANGED <<fam, xc, xedits, xenc, xback, notX>>

XEdit ==
    /\ fam = "xor" /\ pc = "edit"
    /\ xedits < MaxXorEdits
    /\ \E i \in 1..Len(xp), b \in XorPlainBytes :
          /\ xp[i] # b
          /\ xp' = [xp EXCEPT ![i] = b]
    /\ xedits' = xedits + 1
    /\ UNCHANGED <<fam, pc, xc, xenc, xback, notX>>

XReencode ==
    /\ fam = "xor" /\ pc = "edit"
    /\ xenc' = xor_reencode_from_original(xc, xp)
    /\ pc' = "redecode"
    /\ UNCHANGED <<fam, xc, xp, xedits, xback, notX>>

XRedecode ==
    /\ fam = "xor" /\ pc = "redecode"
    /\ xback' = xor_decode_with_feedback(xenc)
    /\ pc' = "done"
    /\ UNCHANGED <<fam, xc, xp, xedits, xenc, notX>>

NextXor == XDecode \/ XEdit \/ XReencode \/ XRedecode

SpecXor == InitXor /\ [][NextXor]_vars

(***************************************************************************)
(* PAKTool.repack: one session over one container                          *)
(***************************************************************************)
MaxEdited == 2

ZSeg(body, trailer) == DAT_MAGIC \o body \o trailer

\* original containers: two segments and a dictionary; a leading byte and
\* one segment; no dictionary marker; a segment of the magic alone; no segment
ZPaks ==
    { ZSeg(<<10, 11>>, <<1, 2, 3, 4>>) \o ZSeg(<<12, 13, 14, 15>>, <<5, 6, 7, 8>>)
          \o DICT_MARKER \o <<90, 91>>,
      <<9>> \o ZSeg(<<20>>, <<1, 1, 1, 1>>) \o DICT_MARKER,
      ZSeg(<<10, 11>>, <<1, 2, 3, 4>>) \o <<7>>,
      DAT_MAGIC \o DICT_MARKER \o <<90>>,
      DICT_MARKER \o <<1>> }

\* names of the files in edited_dat, without ".dat"
ZStems ==
    { <<"1">>, <<"0", "1">>, <<"2">>, <<"3">>, <<"0">>, <<"x">>, <<"-", "1">>,
      <<"0", "0", "0", "0", "0", "0", "0">> }

BigFrame == expected_magic \o <<1, 2, 3, 4, 5, 6, 7, 8, 9>>

\* edited payloads: fits at every level; fits from level 3 on; never fits;
\* level 1 raises; a frame that holds the frame magic again
ZPayloads ==
    { Payload(expected_magic \o <<1>>, BigFrame, 1, 22, 0),
      Payload(expected_magic \o <<1, 2>>, BigFrame, 3, 22, 0),
      Payload(BigFrame, BigFrame, 1, 22, 0),
      Payload(expected_magic \o <<3>>, BigFrame, 1, 22, 1),
      Payload(expected_magic \o expected_magic, BigFrame, 1, 22, 0) }

InitZsdic ==
    /\ fam = "zsdic"
    /\ pc = "open"
    /\ pak_file \in ZPaks
    /\ pak_data = NoBytes /\ dictionary = NoBytes
    /\ dat_files = <<>> /\ zseen = {} /\ zwritten = {} /\ zlast = ZNone
    /\ successful_repacks = 0 /\ failed_repacks = 0
    /\ out_file = NotWritten
    /\ IdleX /\ IdleM /\ IdleG /\ IdleU /\ IdleC /\ IdleS

\* lines 1124-1131: read the PAK, find the dictionary and the DAT files; a
\* missing marker raises out of repack
ZOpen ==
    /\ fam = "zsdic" /\ pc = "open"
    /\ LET d == find_dictionary(pak_file)
       IN  IF d.found
           THEN /\ pak_data' = pak_file
                /\ dictionary' = d.dictionary
                /\ dat_files' = find_dat_files(pak_file, d.dict_pos)
                /\ pc' = "loop"
           ELSE /\ pc' = "failed"
                /\ UNCHANGED <<pak_data, dictionary, dat_files>>
    /\ UNCHANGED <<fam, out_file, pak_file, zseen, zwritten, zlast,
                   successful_repacks, failed_repacks, notZ>>

\* lines 1136-1138: no edited file
ZNoFiles ==
    /\ fam = "zsdic" /\ pc = "loop" /\ zseen = {}
    /\ pc' = "done"
    /\ UNCHANGED <<fam, out_file, zvars, notZ>>

\* lines 1145-1227: the loop body for the next edited file
ZRepackFile ==
    /\ fam = "zsdic" /\ pc = "loop"
    /\ Cardinality(zseen) < MaxEdited
    /\ \E stem \in ZStems \ zseen, edited_data \in ZPayloads :
          \E r \in {RepackFile(pak_data, dat_files, dictionary, stem, edited_data)} :
              /\ pak_data' = r.pak_data
              /\ zlast' = [status |-> r.status, index |-> r.index,
                           level |-> r.level, payload |-> r.payload]
              /\ zseen' = zseen \cup {stem}
              /\ zwritten' = IF r.status = "replaced"
                             THEN zwritten \cup {r.index} ELSE zwritten
              /\ successful_repacks' = IF r.status = "replaced"
                                       THEN successful_repacks + 1
                                       ELSE successful_repacks
              /\ failed_repacks' = IF r.status \in {"overflow", "size_mismatch"}
                                   THEN failed_repacks + 1 ELSE failed_repacks
    /\ UNCHANGED <<fam, pc, out_file, pak_file, dictionary, dat_files, notZ>>

\* lines 1229-1237: the working buffer is written out
ZSave ==
    /\ fam = "zsdic" /\ pc = "loop" /\ zseen # {}
    /\ out_file' = Written(pak_data)
    /\ pc' = "done"
    /\ UNCHANGED <<fam, zvars, notZ>>

NextZsdic == ZOpen \/ ZNoFiles \/ ZRepackFile \/ ZSave

SpecZsdic == InitZsdic /\ [][NextZsdic]_vars

(***************************************************************************)
(* MiniOBBUnpacker.repack_mini_obb: one session over one container         *)
(***************************************************************************)
MaxUexp == 2

MBlock(body) == signature \o body

\* original containers: a leading byte and two blocks; one block; no
\* signature; three blocks
MPaks ==
    { <<7>> \o MBlock(<<1, 2, 3, 4, 5>>) \o MBlock(<<1, 2, 3, 4, 5, 6, 7, 8, 9, 10>>),
      MBlock(<<1, 2, 3, 4, 5, 6, 7, 8>>),
      <<1, 2, 3>>,
      MBlock(<<1>>) \o MBlock(<<1, 2>>) \o MBlock(<<1, 2, 3, 4, 5, 6, 7, 8, 9>>) }

\* names of the .uexp files, without the suffix
MStems ==
    { <<"0">>, <<"1">>, <<"0", "1">>, <<"2">>, <<"5">>, <<"-", "1">>, <<"-", "2">>,
      <<"-", "9">>, <<"x">> }

\* modified contents: the payloads of the zsdic sessions, one that only the
\* threads=-1 attempt fits, and one whose frame holds four zero bytes
\* followed by the block signature
MPayloads ==
    ZPayloads \cup
    { [small |-> BigFrame, large |-> BigFrame, mt |-> expected_magic \o <<4>>,
       from |-> 1, to |-> 22, bad |-> 0],
      Payload(expected_magic \o <<0, 0, 0, 0>> \o signature, BigFrame, 1, 22, 0) }

InitMini ==
    /\ fam = "mini"
    /\ pc = "open"
    /\ original_data \in MPaks
    /\ temp_output = NoBytes /\ offsets = <<>>
    /\ mseen = {} /\ mwritten = {} /\ mlast = MNone /\ modified_count = 0
    /\ out_file = NotWritten
    /\ IdleX /\ IdleZ /\ IdleG /\ IdleU /\ IdleC /\ IdleS

\* lines 4020-4026: no .uexp file in the input directory
MNoFiles ==
    /\ fam = "mini" /\ pc = "open"
    /\ pc' = "done"
    /\ UNCHANGED <<fam, out_file, mvars, notM>>

\* lines 4049-4070: find the blocks of the original, copy it as the base
MOpen ==
    /\ fam = "mini" /\ pc = "open"
    /\ LET offs == find_all_occurrences(original_data, signature)
       IN  IF offs = <<>>
           THEN /\ pc' = "failed"
                /\ UNCHANGED <<offsets, temp_output>>
           ELSE /\ offsets' = offs
                /\ temp_output' = original_data
                /\ pc' = "loop"
    /\ UNCHANGED <<fam, out_file, original_data, mseen, mwritten, mlast,
                   modified_count, notM>>

\* lines 4078-4141: the loop body for the next .uexp file
MRepackUexp ==
    /\ fam = "mini" /\ pc = "loop"
    /\ Cardinality(mseen) < MaxUexp
    /\ \E stem \in MStems \ mseen, modified_content \in MPayloads :
          \E r \in {RepackUexp(temp_output, original_data, offsets, stem, modified_content)} :
              /\ temp_output' = r.temp_output
              /\ mlast' = [status |-> r.status, index |-> r.index, start |-> r.start,
                           size |-> r.size, content |-> r.content]
              /\ mseen' = mseen \cup {stem}
              /\ mwritten' = IF r.status = "written"
                             THEN mwritten \cup {r.start} ELSE mwritten
              /\ modified_count' = IF r.status = "written"
                                   THEN modified_count + 1 ELSE modified_count
    /\ UNCHANGED <<fam, pc, out_file, original_data, offsets, notM>>

\* lines 4143-4153: the temporary file replaces the output file
MSave ==
    /\ fam = "mini" /\ pc = "loop" /\ mseen # {}
    /\ out_file' = Written(temp_output)
    /\ pc' = "done"
    /\ UNCHANGED <<fam, mvars, notM>>

NextMini == MNoFiles \/ MOpen \/ MRepackUexp \/ MSave

SpecMini == InitMini /\ [][NextMini]_vars

(***************************************************************************)
(* PAKToolAdvanced: unpack (scan, manifest), then repack from the manifest *)
(***************************************************************************)
\* original containers: one keyed window; a plain byte and two keyed
\* windows; a plain gzip header; the signature alone
GPaks ==
    { <<157, 199, 1, 2, 3, 4, 5, 6>>,
      <<5, 157, 199, 1, 2, 3, 4, 157, 199, 7, 8, 9>>,
      <<31, 139, 8, 120, 1, 2, 3>>,
      <<157, 199>> }

\* replacement files: given by the deflate body zlib produces for each
GRaws == { [body |-> <<1>>], [body |-> <<1, 2, 3>>], [body |-> <<1, 2, 3, 4, 5, 6, 7, 8, 9, 10, 11>>] }

InitGame ==
    /\ fam = "game"
    /\ pc = "unpack"
    /\ data_enc_orig \in GPaks
    /\ decoded = NoBytes /\ pos = 0 /\ rejected = {} /\ iterations = 0
    /\ entries = <<>> /\ eidx = 0 /\ greps = <<>> /\ repacked_cnt = 0
    /\ out_file = NotWritten
    /\ IdleX /\ IdleZ /\ IdleM /\ IdleU /\ IdleC /\ IdleS

\* unpack_pak_advanced, lines 3667-3668: decode the container
GUnpack ==
    /\ fam = "game" /\ pc = "unpack"
    /\ decoded' = xor_decode_with_feedback(data_enc_orig)
    /\ pc' = "scan"
    /\ UNCHANGED <<fam, out_file, data_enc_orig, pos, rejected, iterations, entries, eidx, greps,
                   repacked_cnt, notG>>

\* one iteration of the while loop of scan_and_extract_smart; when it
\* breaks, the manifest is written (lines 3655-3656)
GScanStep ==
    /\ fam = "game" /\ pc = "scan"
    /\ LET cand == find_next_candidate(decoded, pos)
       IN  IF cand = -1 \/ cand >= Len(decoded) - 2
           THEN /\ pc' = "manifest"
                /\ UNCHANGED <<pos, rejected, iterations, entries>>
           ELSE \E k \in (TrialOffsets(decoded, cand, max_offset_try) \ rejected) \cup {-1},
                   rej \in {o \in InflateOutcomes(decoded, cand) : ~Accepted(o)} :
                \E ok \in IF k = -1 THEN {rej}
                          ELSE {o \in InflateOutcomes(decoded, k) : Accepted(o)} :
                  \* zlib at the offsets of this trial: the stream at k inflates,
                  \* the others do not
                  LET inflate == [s \in TrialOffsets(decoded, cand, max_offset_try) |->
                                     IF s = k THEN ok ELSE rej]
                  IN
                  /\ LET trial == try_decompress_at(decoded, cand, max_offset_try, inflate)
                         start_pos == cand + trial.ofs
                     IN  IF trial.found
                         THEN /\ entries' = Append(entries,
                                      [index |-> Len(entries) + 1, start |-> start_pos,
                                       consumed |-> trial.consumed, mode |-> trial.mode])
                              /\ pos' = NextPos(cand, trial.ofs, trial.consumed)
                              /\ rejected' = rejected \cup
                                      {s \in DOMAIN inflate : s < start_pos}
                         ELSE /\ pos' = cand + 1
                              /\ rejected' = rejected \cup DOMAIN inflate
                              /\ UNCHANGED entries
                  /\ iterations' = iterations + 1
                  /\ pc' = "scan"
    /\ UNCHANGED <<fam, out_file, data_enc_orig, decoded, eidx, greps, repacked_cnt, notG>>

\* repack_pak_advanced, lines 3690-3694: decode the original again and read
\* the manifest
GRepackOpen ==
    /\ fam = "game" /\ pc = "manifest"
    /\ decoded' = xor_decode_with_feedback(data_enc_orig)
    /\ pc' = "entries"
    /\ UNCHANGED <<fam, out_file, data_enc_orig, pos, rejected, iterations, entries, eidx, greps,
                   repacked_cnt, notG>>

\* lines 3733-3765: the loop body for the next manifest entry; the file of
\* the entry is missing, unreadable, or compresses to comp
GRepackEntry ==
    /\ fam = "game" /\ pc = "entries"
    /\ eidx < Len(entries)
    /\ LET e == entries[eidx + 1]
       IN  \/ /\ greps' = Append(greps, [status |-> "not_found", comp |-> NoBytes])
              /\ UNCHANGED <<decoded, repacked_cnt>>
           \/ /\ greps' = Append(greps, [status |-> "error", comp |-> NoBytes])
              /\ UNCHANGED <<decoded, repacked_cnt>>
           \/ \E raw \in GRaws :
                 LET comp == compress_by_mode(raw, e.mode)
                 IN  IF Len(comp) <= e.consumed
                     THEN /\ decoded' = PatchEntry(decoded, e.start, e.consumed, comp)
                          /\ repacked_cnt' = repacked_cnt + 1
                          /\ greps' = Append(greps, [status |-> "repacked", comp |-> comp])
                     ELSE /\ greps' = Append(greps, [status |-> "skipped", comp |-> comp])
                          /\ UNCHANGED <<decoded, repacked_cnt>>
    /\ eidx' = eidx + 1
    /\ UNCHANGED <<fam, pc, out_file, data_enc_orig, pos, rejected, iterations, entries,
                   notG>>

\* the mutant: the working buffer is written out without re-encoding
Reencoded_Plain(orig, dec) == dec

\* line 3774
Reencoded(orig, dec) == xor_reencode_from_original(orig, dec)

\* lines 3767-3778: nothing repacked returns False; else re-encode and write
GFinish ==
    /\ fam = "game" /\ pc = "entries"
    /\ eidx = Len(entries)
    /\ IF repacked_cnt = 0 \/ Len(decoded) # Len(data_enc_orig)
       THEN out_file' = out_file
       ELSE out_file' = Written(Reencoded(data_enc_orig, decoded))
    /\ pc' = "done"
    /\ UNCHANGED <<fam, gvars, notG>>

NextGame == GUnpack \/ GScanStep \/ GRepackOpen \/ GRepackEntry \/ GFinish

SpecGame == InitGame /\ [][NextGame]_vars

(***************************************************************************)
(* PAKTool.unpack: one session over one container                          *)
(***************************************************************************)
MaxPieces == 4

\* the numbers of required_files (lines 1067-1074)
required_files ==
    (28723..28726) \cup {29200} \cup (29402..29407) \cup (29411..29414)
        \cup (29660..29665) \cup (29669..29672) \cup {31362}

\* the containers of the model hold the DAT files from this number on: the
\* file of dat_files[i] is named FirstDat + i instead of 1 + i
FirstDat == 28725

\* the mutant: the partial output of the failing read is kept
decompress_dat_KeepPartial(dat_data_with_magic, dict, outcome) ==
    IF outcome.load_error THEN [raised |-> TRUE, data |-> NoBytes]
    ELSE [raised |-> FALSE, data |-> outcome.read \o outcome.partial]

\* decompress_dat.  outcome is what the zstd reader does on the decrypted
\* bytes: load_error, the dictionary cannot be loaded (raised outside the
\* try); read, the bytes of the read() calls that returned; error, a later
\* read() raised ZstdError; partial, the bytes that read() had decoded
\* before it raised
decompress_dat(dat_data_with_magic, dict, outcome) ==
    IF outcome.load_error THEN [raised |-> TRUE, data |-> NoBytes]
    ELSE [raised |-> FALSE, data |-> outcome.read]

\* the outcomes of the zstd reader on a decrypted segment
ReaderOutcomes(decrypted, dict) ==
    { [load_error |-> FALSE, read |-> r, error |-> e, partial |-> q] :
          r \in {NoBytes, <<65, 66>>}, e \in BOOLEAN, q \in {NoBytes, <<67>>} }
    \ { [load_error |-> FALSE, read |-> r, error |-> FALSE, partial |-> <<67>>] :
          r \in {NoBytes, <<65, 66>>} }

RECURSIVE Flatten(_)
Flatten(pieces) ==
    IF pieces = <<>> THEN NoBytes ELSE Head(pieces) \o Flatten(Tail(pieces))

\* pieces of a container: the magic, the marker, a plain byte, the two
\* halves of the magic
UTokens == {DAT_MAGIC, DICT_MARKER, <<1>>, <<81, 204>>, <<86, 132>>}

UPaks == { Flatten(ts) : ts \in SeqsOf(UTokens, 0, MaxPieces) }

InitUnpack ==
    /\ fam = "unpack"
    /\ pc = "open"
    /\ pak_file \in UPaks
    /\ pak_data = NoBytes /\ dictionary = NoBytes
    /\ dat_files = <<>> /\ zseen = {} /\ zwritten = {} /\ zlast = ZNone
    /\ successful_repacks = 0 /\ failed_repacks = 0
    /\ out_file = NotWritten
    /\ IdleU /\ IdleX /\ IdleM /\ IdleG /\ IdleC /\ IdleS

\* lines 1055-1064: the dictionary is found and saved, the DAT files are
\* listed; a missing marker raises out of unpack
UOpen ==
    /\ fam = "unpack" /\ pc = "open"
    /\ LET d == find_dictionary(pak_file)
       IN  IF d.found
           THEN /\ dictionary' = d.dictionary
                /\ dict_file' = Written(d.dictionary)
                /\ dat_files' = find_dat_files(pak_file, d.dict_pos)
                /\ pc' = "loop"
           ELSE /\ pc' = "failed"
                /\ UNCHANGED <<dictionary, dict_file, dat_files>>
    /\ UNCHANGED <<fam, pak_file, pak_data, zseen, zwritten, zlast,
                   successful_repacks, failed_repacks, uidx, unpack_files, notU>>

\* lines 1082-1108: the loop body for the next DAT file
UDat ==
    /\ fam = "unpack" /\ pc = "loop" /\ uidx < Len(dat_files)
    /\ LET dat_info == dat_files[uidx + 1]
       IN  IF FirstDat + uidx \notin required_files
           THEN /\ uidx' = uidx + 1
                /\ UNCHANGED <<pc, unpack_files>>
           ELSE \E outcome \in ReaderOutcomes(xor_decrypt(dat_info.data), dictionary) :
                  \E r \in {decompress_dat(dat_info.data, dictionary, outcome)} :
                      IF r.raised
                      THEN /\ pc' = "failed"
                           /\ UNCHANGED <<uidx, unpack_files>>
                      ELSE /\ unpack_files' =
                                  Append(unpack_files,
                                         [index |-> uidx, data |-> r.data, outcome |-> outcome,
                                          dict |-> dictionary])
                           /\ uidx' = uidx + 1
                           /\ pc' = pc
    /\ UNCHANGED <<fam, zvars, dict_file, notU>>

\* lines 1110-1114
UDone ==
    /\ fam = "unpack" /\ pc = "loop" /\ uidx = Len(dat_files)
    /\ pc' = "done"
    /\ UNCHANGED <<fam, zvars, uvars, notU>>

NextUnpack == UOpen \/ UDat \/ UDone

SpecUnpack == InitUnpack /\ [][NextUnpack]_vars

(***************************************************************************)
(* One call of a function of MiniOBBUnpacker or PAKToolAdvanced            *)
(***************************************************************************)
PadSamples == {expected_magic \o <<1>>, BigFrame}
MaxPad == 20

\* add_skippable_padding(compressed, pad_len)
InitPad ==
    \E c \in PadSamples \cup {NoBytes}, n \in 0..MaxPad :
        args = [f |-> "add_skippable_padding", compressed |-> c, pad_len |-> n]

CallPad ==
    /\ fam = "call" /\ pc = "call" /\ args.f = "add_skippable_padding"
    /\ ret' = [f |-> args.f, data |-> add_skippable_padding(args.compressed, args.pad_len)]
    /\ pc' = "returned"
    /\ UNCHANGED <<fam, args, notC>>

MaxKeyedLen == 6

\* payload bytes, keys (the key of a block that starts with the signature
\* among them) and chunk sizes of the encoding loop
KeyedBytes == {0, 255}
KeyedKeys == {Zeros(4), find_xor_key(signature, expected_magic), <<1, 2, 3, 4>>}
KeyedChunks == {1, 3, 4, CHUNK_SIZE}

\* the encoding loop of repack_mini_obb, then xor_feedback_block
InitKeyed ==
    \E p \in SeqsOf(KeyedBytes, 0, MaxKeyedLen), key \in KeyedKeys, c \in KeyedChunks :
        args = [f |-> "keyed_round_trip", p |-> p, key |-> key, chunk_size |-> c]

CallEncode ==
    /\ fam = "call" /\ pc = "call" /\ args.f = "keyed_round_trip"
    /\ ret' = [f |-> args.f, enc |-> EncodeBlock(args.p, args.key, args.chunk_size),
               dec |-> NoBytes]
    /\ pc' = "encoded"
    /\ UNCHANGED <<fam, args, notC>>

CallDecode ==
    /\ fam = "call" /\ pc = "encoded" /\ args.f = "keyed_round_trip"
    /\ ret' = [ret EXCEPT !.dec = xor_feedback_block(ret.enc, args.key)]
    /\ pc' = "returned"
    /\ UNCHANGED <<fam, args, notC>>

MaxSuffix == 2

\* Scenario A: a window that starts with the table's signature, a 4-byte
\* plaintext ("TEST", one that starts with the zlib header 78 9C, zeros)
\* and the bytes that follow the window in the buffer
ScenarioPlain == {<<84, 69, 83, 84>>, <<120, 156, 1, 2>>, Zeros(4)}

InitScenario ==
    \E p \in ScenarioPlain, t \in SeqsOf(XorCipherBytes, 0, MaxSuffix) :
        args = [f |-> "scenario_a", c |-> SigBytes \o <<0, 0>>, p |-> p, t |-> t]

\* xor_reencode_from_original on the window
CallScenarioEncode ==
    /\ fam = "call" /\ pc = "call" /\ args.f = "scenario_a"
    /\ ret' = [f |-> args.f, enc |-> xor_reencode_from_original(args.c, args.p),
               dec |-> NoBytes]
    /\ pc' = "encoded"
    /\ UNCHANGED <<fam, args, notC>>

\* xor_decode_with_feedback on the window followed by the trailing bytes
CallScenarioDecode ==
    /\ fam = "call" /\ pc = "encoded" /\ args.f = "scenario_a"
    /\ ret' = [ret EXCEPT !.dec = xor_decode_with_feedback(ret.enc \o args.t)]
    /\ pc' = "returned"
    /\ UNCHANGED <<fam, args, notC>>

\* xor_decode_with_feedback on a ciphertext alone and followed by a suffix
InitPrefix ==
    \E c \in SeqsOf(XorCipherBytes, 1, MaxXorLen), t \in SeqsOf(XorCipherBytes, 0, MaxSuffix) :
        args = [f |-> "decode_prefix", c |-> c, t |-> t]

CallPrefix ==
    /\ fam = "call" /\ pc = "call" /\ args.f = "decode_prefix"
    /\ ret' = [f |-> args.f, alone |-> xor_decode_with_feedback(args.c),
               whole |-> xor_decode_with_feedback(args.c \o args.t)]
    /\ pc' = "returned"
    /\ UNCHANGED <<fam, args, notC>>

MaxTarget == 14

\* data whose compressed size is small at the levels from..to only
TargetPayloads ==
    { Payload(expected_magic \o <<1>>, BigFrame, from, to, 0) :
          from \in 1..22, to \in {1, 2, 3, 12, 22} }

\* compress_to_target_size(data, target_size)
InitTarget ==
    \E data \in TargetPayloads, n \in 0..MaxTarget :
        args = [f |-> "compress_to_target_size", data |-> data, target_size |-> n]

CallTarget ==
    /\ fam = "call" /\ pc = "call" /\ args.f = "compress_to_target_size"
    /\ \E r \in {compress_to_target_size(args.data, args.target_size)} :
          ret' = [f |-> args.f, kind |-> r.kind, level |-> r.level, data |-> r.data]
    /\ pc' = "returned"
    /\ UNCHANGED <<fam, args, notC>>

\* decompress_zstd.  outcome is what ZstdDecompressor().decompress does on
\* data: error, it raises ZstdError; produced, the bytes decoded before it
\* returned or raised
decompress_zstd(data, outcome) ==
    IF outcome.error THEN [raised |-> FALSE, data |-> data]
    ELSE [raised |-> FALSE, data |-> outcome.produced]

\* the outcomes of the one-shot decoder: bytes that do not begin with the
\* frame magic are refused before anything is decoded
DecoderOutcomes(data) ==
    IF Len(data) >= 4 /\ SubSeq(data, 1, 4) = expected_magic
    THEN { [error |-> e, produced |-> q] : e \in BOOLEAN, q \in {NoBytes, <<65, 66>>} }
    ELSE { [error |-> TRUE, produced |-> NoBytes] }

\* streams: a frame, a truncated frame, bytes that are no frame, nothing
DecompressSamples == {BigFrame, expected_magic \o <<1>>, <<9, 9>>, NoBytes}

\* decompress_zstd(data) and decompress_dat(data, dictionary)
InitDecompress ==
    \/ \E data \in DecompressSamples :
          \E o \in DecoderOutcomes(data) :
              args = [f |-> "decompress_zstd", data |-> data, outcome |-> o]
    \/ \E data \in DecompressSamples, dict \in {NoBytes, DICT_MARKER \o <<1>>} :
          \E o \in ReaderOutcomes(data, dict) :
              args = [f |-> "decompress_dat", data |-> xor_decrypt(data),
                      dict |-> dict, outcome |-> o]

CallDecompressZstd ==
    /\ fam = "call" /\ pc = "call" /\ args.f = "decompress_zstd"
    /\ \E r \in {decompress_zstd(args.data, args.outcome)} :
          ret' = [f |-> args.f, raised |-> r.raised, data |-> r.data]
    /\ pc' = "returned"
    /\ UNCHANGED <<fam, args, notC>>

CallDecompressDat ==
    /\ fam = "call" /\ pc = "call" /\ args.f = "decompress_dat"
    /\ \E r \in {decompress_dat(args.data, args.dict, args.outcome)} :
          ret' = [f |-> args.f, raised |-> r.raised, data |-> r.data]
    /\ pc' = "returned"
    /\ UNCHANGED <<fam, args, notC>>

MaxStatic == 3

\* bytes for the static XOR: zero, the key, all ones, the first magic byte
StaticBytes == {0, XOR_KEY, 255, 40}

\* xor_decrypt(d), then xor_decrypt again on its result
InitStatic ==
    \E d \in SeqsOf(StaticBytes, 0, MaxStatic) :
        args = [f |-> "xor_decrypt", d |-> d]

CallStaticOnce ==
    /\ fam = "call" /\ pc = "call" /\ args.f = "xor_decrypt"
    /\ ret' = [f |-> args.f, once |-> xor_decrypt(args.d), twice |-> NoBytes]
    /\ pc' = "encoded"
    /\ UNCHANGED <<fam, args, notC>>

CallStaticTwice ==
    /\ fam = "call" /\ pc = "encoded" /\ args.f = "xor_decrypt"
    /\ ret' = [ret EXCEPT !.twice = xor_decrypt(ret.once)]
    /\ pc' = "returned"
    /\ UNCHANGED <<fam, args, notC>>

\* edited payloads for the level search: 5 bytes at the levels from..to, 7 or
\* 13 bytes at the others, one level that raises
FitPayloads ==
    { Payload(expected_magic \o <<1>>, large, from, to, bad) :
          large \in {expected_magic \o <<1, 2, 3>>, BigFrame},
          from \in {1, 2, 3, 22}, to \in {3, 22}, bad \in 0..3 }

\* a container of two segments, of 10 and of 12 bytes, and a dictionary
FitPak ==
    ZSeg(<<10, 11>>, <<1, 2, 3, 4>>) \o ZSeg(<<12, 13, 14, 15>>, <<5, 6, 7, 8>>)
        \o DICT_MARKER \o <<90, 91>>

\* the loop body of PAKTool.repack for edited file 1.dat or 2.dat
InitFit ==
    \E stem \in {<<"1">>, <<"2">>}, edited_data \in FitPayloads :
        args = [f |-> "repack_file", pak |-> FitPak, stem |-> stem,
                edited_data |-> edited_data]

CallRepackFile ==
    /\ fam = "call" /\ pc = "call" /\ args.f = "repack_file"
    /\ \E d \in {find_dictionary(args.pak)} :
       \E dats \in {find_dat_files(args.pak, d.dict_pos)} :
       \E r \in {RepackFile(args.pak, dats, d.dictionary, args.stem, args.edited_data)} :
          ret' = [f |-> args.f, status |-> r.status, index |-> r.index,
                  level |-> r.level, payload |-> r.payload, pak_data |-> r.pak_data,
                  dat_files |-> dats, dictionary |-> d.dictionary,
                  tried |-> TriedLevels(args.edited_data, d.dictionary,
                                        dats[r.index + 1].size - 4, 1)]
    /\ pc' = "returned"
    /\ UNCHANGED <<fam, args, notC>>

MaxIdLen == 7

\* bytes of a container: a plain byte and the two halves of the signature
IdBytes == {0, 157, 199}

\* the decoded bytes with their lowest bit flipped: an edit of every byte
FlipAll(data) == [k \in 1..Len(data) |-> Xor(data[k], 1)]

\* xor_decode_with_feedback(c), then xor_reencode_from_original on the
\* decode as it is and on an edited decode
InitIdentity ==
    \E c \in SeqsOf(IdBytes, 0, MaxIdLen) :
        args = [f |-> "reencode_identity", c |-> c]

CallIdentityDecode ==
    /\ fam = "call" /\ pc = "call" /\ args.f = "reencode_identity"
    /\ ret' = [f |-> args.f, dec |-> xor_decode_with_feedback(args.c),
               enc |-> NoBytes, enc_edited |-> NoBytes]
    /\ pc' = "encoded"
    /\ UNCHANGED <<fam, args, notC>>

CallIdentityReencode ==
    /\ fam = "call" /\ pc = "encoded" /\ args.f = "reencode_identity"
    /\ ret' = [ret EXCEPT
                 !.enc = xor_reencode_from_original(args.c, ret.dec),
                 !.enc_edited = xor_reencode_from_original(args.c, FlipAll(ret.dec))]
    /\ pc' = "returned"
    /\ UNCHANGED <<fam, args, notC>>

MaxUnified == 2

\* names of edited files, without ".dat": two names of segment 1, one of
\* segment 2
UnifiedStems == {<<"1">>, <<"0", "1">>, <<"2">>}

\* the files of one edited directory in the order glob lists them
Listings == { s \in SeqsOf(UnifiedStems, 0, MaxUnified) :
                \A i, j \in 1..Len(s) : i # j => s[i] # s[j] }

\* what the files of the ModSkin and of the Headshot directory hold
ModskinData == Payload(expected_magic \o <<1>>, BigFrame, 1, 22, 0)
HeadshotData == Payload(expected_magic \o <<2>>, BigFrame, 1, 22, 0)

Names(listing) == { listing[k] : k \in 1..Len(listing) }

\* combined_files in the order of its items(): the ModSkin names, a name
\* that Headshot has too taking the Headshot file, then the other Headshot
\* names (lines 1284-1299)
RECURSIVE HeadshotOnly(_, _)
HeadshotOnly(headshot, modskin) ==
    IF headshot = <<>> THEN <<>>
    ELSE IF Head(headshot) \in Names(modskin)
         THEN HeadshotOnly(Tail(headshot), modskin)
         ELSE <<[stem |-> Head(headshot), edited_data |-> HeadshotData]>>
                  \o HeadshotOnly(Tail(headshot), modskin)

combined_files(modskin, headshot) ==
    [k \in 1..Len(modskin) |->
        [stem |-> modskin[k],
         edited_data |-> IF modskin[k] \in Names(headshot)
                         THEN HeadshotData ELSE ModskinData]]
    \o HeadshotOnly(headshot, modskin)

\* the for loop of repack_unified_zsdic over combined_files.items(): each
\* replaced segment is logged with the name and the payload written
RECURSIVE UnifiedLoop(_, _, _, _, _)
UnifiedLoop(files, data, dats, dict, writes) ==
    IF files = <<>> THEN [pak_data |-> data, writes |-> writes]
    ELSE
        LET r == RepackFile(data, dats, dict, Head(files).stem, Head(files).edited_data)
        IN  UnifiedLoop(Tail(files), r.pak_data, dats, dict,
                        IF r.status = "replaced"
                        THEN Append(writes, [stem |-> Head(files).stem,
                                             index |-> r.index, payload |-> r.payload])
                        ELSE writes)

\* repack_unified_zsdic on the container FitPak
InitUnified ==
    \E modskin \in Listings, headshot \in Listings :
        args = [f |-> "repack_unified_zsdic", pak |-> FitPak,
                modskin |-> modskin, headshot |-> headshot]

CallUnified ==
    /\ fam = "call" /\ pc = "call" /\ args.f = "repack_unified_zsdic"
    /\ \E d \in {find_dictionary(args.pak)} :
       \E r \in {UnifiedLoop(combined_files(args.modskin, args.headshot), args.pak,
                             find_dat_files(args.pak, d.dict_pos), d.dictionary, <<>>)} :
          ret' = [f |-> args.f, pak_data |-> r.pak_data, writes |-> r.writes]
    /\ pc' = "returned"
    /\ UNCHANGED <<fam, args, notC>>

InitCall ==
    /\ fam = "call"
    /\ pc = "call"
    /\ \/ InitPad \/ InitKeyed \/ InitScenario \/ InitPrefix \/ InitTarget
       \/ InitDecompress \/ InitStatic \/ InitFit \/ InitIdentity \/ InitUnified
    /\ ret = NoCall
    /\ out_file = NotWritten
    /\ IdleX /\ IdleZ /\ IdleM /\ IdleG /\ IdleU /\ IdleS

NextCall ==
    \/ CallPad \/ CallEncode \/ CallDecode
    \/ CallScenarioEncode \/ CallScenarioDecode \/ CallPrefix
    \/ CallTarget \/ CallDecompressZstd \/ CallDecompressDat
    \/ CallStaticOnce \/ CallStaticTwice \/ CallRepackFile
    \/ CallIdentityDecode \/ CallIdentityReencode \/ CallUnified

SpecCall == InitCall /\ [][NextCall]_vars

(***************************************************************************)
(* The sessions that look for a marker or a signature first                *)
(***************************************************************************)
InitSessions == InitZsdic \/ InitMini \/ InitUnpack

NextSessions == NextZsdic \/ NextMini \/ NextUnpack

SpecSessions == InitSessions /\ [][NextSessions]_vars

(***************************************************************************)
(* The license server: the licenses table and its endpoints                *)
(***************************************************************************)
ADMIN_PASSWORD == "admin123"

\* the passwords requests present; a request without one presents ""
Passwords == {ADMIN_PASSWORD, ""}

verify_admin(password) == password = ADMIN_PASSWORD

\* SQL NULL in the hwid column; no request presents this string
NULL == "<NULL>"

\* the HWIDs requests present; a request without one presents ""
Hwids == {"", "h1", "h2"}

\* the note of /api/generate
Notes == {"vip"}

\* str.strip(): leading and trailing whitespace removed
Whitespace == {9, 10, 13, 32}

RECURSIVE lstrip(_)
lstrip(s) == IF s # <<>> /\ Head(s) \in Whitespace THEN lstrip(Tail(s)) ELSE s

RECURSIVE rstrip(_)
rstrip(s) ==
    IF s # <<>> /\ s[Len(s)] \in Whitespace THEN rstrip(SubSeq(s, 1, Len(s) - 1)) ELSE s

strip(s) == rstrip(lstrip(s))

\* SELECT ... WHERE license_key = ?
Select(table, license_key) == { r \in table : r.license_key = license_key }

\* the mutant: the UPDATE has no WHERE clause
UpdateActive_All(table, license_key, active) ==
    { [r EXCEPT !.active = active] : r \in table }

\* UPDATE licenses SET active = ? WHERE license_key = ?
UpdateActive(table, license_key, active) ==
    { IF r.license_key = license_key THEN [r EXCEPT !.active = active] ELSE r : r \in table }

\* UPDATE licenses SET hwid = ? WHERE license_key = ?
UpdateHwid(table, license_key, hwid) ==
    { IF r.license_key = license_key THEN [r EXCEPT !.hwid = hwid] ELSE r : r \in table }

\* DELETE FROM licenses WHERE license_key = ?
DeleteKey(table, license_key) == { r \in table : r.license_key # license_key }

\* the response of a step: sent is FALSE while the request still runs
Response(op, key, authed, status, ok) ==
    [op |-> op, key |-> key, authed |-> authed, status |-> status, ok |-> ok,
     sent |-> TRUE]

Unauthorized(op, key) == Response(op, key, FALSE, 401, FALSE)

\* at most this many rows are ever inserted
MaxRows == 2

InitServer ==
    /\ fam = "server"
    /\ pc = "serving"
    /\ licenses = {}
    /\ last_id = 0
    /\ reqs = [c \in Clients |-> NoRequest]
    /\ last = NoResponse
    /\ barred = [k \in RawKeys |-> "no"]
    /\ granted = [k \in GenKeys |-> {}]
    /\ out_file = NotWritten
    /\ IdleX /\ IdleZ /\ IdleM /\ IdleG /\ IdleU /\ IdleC

\* /api/generate: the key is drawn by secrets.token_hex; created_at is the
\* ordinal of the insertion
generate_key ==
    /\ fam = "server"
    /\ \E password \in Passwords, note \in Notes, license_key \in GenKeys :
          IF ~verify_admin(password)
          THEN /\ last' = Unauthorized("generate", <<>>)
               /\ UNCHANGED <<licenses, last_id>>
          ELSE IF Select(licenses, license_key) # {}
          THEN \* sqlite3.IntegrityError: the key is UNIQUE
               /\ last' = Response("generate", <<>>, TRUE, 200, FALSE)
               /\ UNCHANGED <<licenses, last_id>>
          ELSE /\ last_id < MaxRows
               /\ licenses' = licenses \cup
                     {[id |-> last_id + 1, license_key |-> license_key, active |-> 1,
                       created_at |-> last_id + 1, hwid |-> NULL, note |-> note]}
               /\ last_id' = last_id + 1
               /\ last' = Response("generate", license_key, TRUE, 200, TRUE)
    /\ UNCHANGED <<fam, reqs, barred, granted, notS>>

\* /api/keys
list_keys ==
    /\ fam = "server"
    /\ \E password \in Passwords :
          last' = IF verify_admin(password) THEN Response("keys", <<>>, TRUE, 200, TRUE)
                  ELSE Unauthorized("keys", <<>>)
    /\ UNCHANGED <<fam, licenses, last_id, reqs, barred, granted, notS>>

\* /api/revoke
revoke_key ==
    /\ fam = "server"
    /\ \E password \in Passwords, license_key \in RawKeys :
          IF ~verify_admin(password)
          THEN /\ last' = Unauthorized("revoke", license_key)
               /\ UNCHANGED <<licenses, barred>>
          ELSE /\ licenses' = UpdateActive(licenses, license_key, 0)
               /\ barred' = [barred EXCEPT ![license_key] =
                                IF @ = "deleted" THEN @ ELSE "revoked"]
               /\ last' = Response("revoke", license_key, TRUE, 200, TRUE)
    /\ UNCHANGED <<fam, last_id, reqs, granted, notS>>

\* /api/activate
activate_key ==
    /\ fam = "server"
    /\ \E password \in Passwords, license_key \in RawKeys :
          IF ~verify_admin(password)
          THEN /\ last' = Unauthorized("activate", license_key)
               /\ UNCHANGED <<licenses, barred>>
          ELSE /\ licenses' = UpdateActive(licenses, license_key, 1)
               /\ barred' = [barred EXCEPT ![license_key] =
                                IF @ = "revoked" THEN "no" ELSE @]
               /\ last' = Response("activate", license_key, TRUE, 200, TRUE)
    /\ UNCHANGED <<fam, last_id, reqs, granted, notS>>

\* /api/delete
delete_key ==
    /\ fam = "server"
    /\ \E password \in Passwords, license_key \in RawKeys :
          IF ~verify_admin(password)
          THEN /\ last' = Unauthorized("delete", license_key)
               /\ UNCHANGED <<licenses, barred, granted>>
          ELSE /\ licenses' = DeleteKey(licenses, license_key)
               /\ barred' = [barred EXCEPT ![license_key] = "deleted"]
               /\ granted' = [k \in GenKeys |->
                                IF k = license_key THEN {} ELSE granted[k]]
               /\ last' = Response("delete", license_key, TRUE, 200, TRUE)
    /\ UNCHANGED <<fam, last_id, reqs, notS>>

\* valid=True was answered for license_key and hwid
Grant(license_key, hwid, table) ==
    [k \in GenKeys |->
        IF k = license_key /\ hwid # "" /\ Select(table, license_key) # {}
        THEN granted[k] \cup {hwid} ELSE granted[k]]

\* /api/validate up to its SELECT: every path but the first activation
\* answers here; the first activation goes on to its UPDATE
validate_key ==
    /\ fam = "server"
    /\ \E c \in Clients, key \in RawKeys \cup {<<>>}, hwid \in Hwids :
          /\ reqs[c] = NoRequest
          /\ \E license_key \in {strip(key)} :
             \E result \in {Select(licenses, license_key)} :
                IF license_key = <<>> \/ result = {}
                   \/ (\E r \in result : r.active = 0)
                   \/ (hwid # "" /\ \E r \in result : r.hwid # NULL /\ r.hwid # hwid)
                THEN /\ last' = Response("validate", key, FALSE, 200, FALSE)
                     /\ UNCHANGED <<reqs, granted>>
                ELSE IF hwid # "" /\ \E r \in result : r.hwid = NULL
                THEN /\ reqs' = [reqs EXCEPT ![c] =
                                    [st |-> "bind", key |-> key,
                                     license_key |-> license_key, hwid |-> hwid]]
                     /\ last' = [Response("validate", key, FALSE, 0, FALSE)
                                    EXCEPT !.sent = FALSE]
                     /\ UNCHANGED granted
                ELSE /\ last' = Response("validate", key, FALSE, 200, TRUE)
                     /\ granted' = Grant(license_key, hwid, licenses)
                     /\ UNCHANGED reqs
    /\ UNCHANGED <<fam, licenses, last_id, barred, notS>>

\* /api/validate from its UPDATE on: the first activation binds the HWID
validate_bind ==
    /\ fam = "server"
    /\ \E c \in Clients :
          /\ reqs[c] # NoRequest
          /\ licenses' = UpdateHwid(licenses, reqs[c].license_key, reqs[c].hwid)
          /\ last' = Response("validate", reqs[c].key, FALSE, 200, TRUE)
          /\ granted' = Grant(reqs[c].license_key, reqs[c].hwid, licenses')
          /\ reqs' = [reqs EXCEPT ![c] = NoRequest]
    /\ UNCHANGED <<fam, last_id, barred, notS>>

NextServer ==
    \/ generate_key \/ list_keys \/ revoke_key \/ activate_key \/ delete_key
    \/ validate_key \/ validate_bind

SpecServer == InitServer /\ [][NextServer]_vars

(***************************************************************************)
(* The three repack families together                                      *)
(***************************************************************************)
Init == InitZsdic \/ InitMini \/ InitGame

Next == NextZsdic \/ NextMini \/ NextGame

Spec == Init /\ [][Next]_vars

\* the span [position, position + size) of segment idx in a buffer
ZSpan(buf, idx) ==
    Slice(buf, dat_files[idx + 1].position,
          dat_files[idx + 1].position + dat_files[idx + 1].size)

\* the original container of the running repack
OriginalContainer ==
    CASE fam = "zsdic" -> pak_file
      [] fam = "mini" -> original_data
      [] fam = "game" -> data_enc_orig
      [] OTHER -> NoBytes

\* offset i lies outside the span of every manifest entry
GOutside(i) ==
    \A k \in 1..Len(entries) :
        i < entries[k].start \/ i >= entries[k].start + entries[k].consumed

\* C1: FeedbackXOR round trip: decoding the re-encoded container returns
\* exactly the modified plaintext, for every original ciphertext and every
\* modified plaintext of the same length.
C1_RoundTrip == (fam = "xor" /\ pc = "done") => xback = xp

\* C2: in each of the three families the working container keeps the length
\* of the original through every write, successful or failed, and the
\* container written out has exactly the length of the original.
C2_LengthInvariant ==
    /\ (fam = "zsdic" /\ pc \in {"loop", "done"}) => Len(pak_data) = Len(pak_file)
    /\ (fam = "mini" /\ (pc = "loop" \/ out_file.written)) =>
          Len(temp_output) = Len(original_data)
    /\ (fam = "game" /\ pc \in {"entries", "done"}) => Len(decoded) = Len(data_enc_orig)
    /\ out_file.written => Len(out_file.data) = Len(OriginalContainer)

C2_Witness ==
    /\ out_file.written
    /\ out_file.data # OriginalContainer
    /\ \/ fam = "zsdic" /\ failed_repacks > 0
       \/ fam = "mini" /\ Cardinality(mseen) > Cardinality(mwritten)
       \/ fam = "game" /\ \E k \in 1..Len(greps) : greps[k].status = "skipped"

\* C3: whenever a tried level fits, the padded payload has exactly the
\* budget length: required_size on the zsdic path (the size check of line
\* 1216 never fails), target_size for compress_to_target_size, and
\* add_skippable_padding(c, n) has length len(c) + n.
C3_SlotFit ==
    /\ fam = "zsdic" =>
          /\ zlast.status # "size_mismatch"
          /\ zlast.status = "replaced" =>
                Len(zlast.payload) = dat_files[zlast.index + 1].size - 4
    /\ (fam = "mini" /\ mlast.status = "written") => Len(mlast.content) = mlast.size
    /\ \A c \in PadSamples : \A n \in 0..MaxPad :
          Len(add_skippable_padding(c, n)) = Len(c) + n

C3_Witness ==
    \/ /\ fam = "zsdic" /\ zlast.status = "replaced" /\ zlast.level > 1
       /\ zlast.payload[Len(zlast.payload)] = 0
    \/ /\ fam = "mini" /\ mlast.status = "written"
       /\ Len(mlast.content) > 8
       /\ SubSeq(mlast.content, Len(mlast.content) - 2, Len(mlast.content)) = <<80, 42, 77>>

C6_IndexStable ==
    (fam = "mini" /\ out_file.written) =>
        find_all_occurrences(out_file.data, signature) = offsets

\* C7: the manifest entries are ordered and do not overlap, every entry
\* consumed at least one byte and ends inside the buffer.
C7_ManifestNonOverlap ==
    fam = "game" =>
        /\ \A i \in 1..Len(entries) :
              /\ entries[i].consumed > 0
              /\ entries[i].start >= 0
              /\ entries[i].start + entries[i].consumed <= Len(decoded)
        /\ \A i, j \in 1..Len(entries) :
              i < j => entries[i].start + entries[i].consumed <= entries[j].start

C7_Witness ==
    /\ fam = "game" /\ pc = "entries" /\ Len(entries) >= 2
    /\ entries[1].start + entries[1].consumed < entries[2].start
    /\ entries[1].start > 0

\* C8 as stated: every byte of the container written out that lies outside
\* every manifest span is the byte of the original container.
C8_Original ==
    (fam = "game" /\ out_file.written) =>
        \A i \in 0..(Len(data_enc_orig) - 1) :
            GOutside(i) => At(out_file.data, i) = At(data_enc_orig, i)

\* C8: every byte of the decoded working buffer outside every manifest span
\* is the decoded byte of the original; in the container written out, a
\* byte outside every span is the byte of the original when the offset 4
\* before it (its feedback source) lies outside every span too.
C8_OutsideUntouched ==
    (fam = "game" /\ pc \in {"entries", "done"}) =>
        /\ \A i \in 0..(Len(data_enc_orig) - 1) :
              GOutside(i) =>
                  At(decoded, i) = At(xor_decode_with_feedback(data_enc_orig), i)
        /\ out_file.written =>
              \A i \in 0..(Len(data_enc_orig) - 1) :
                  (GOutside(i) /\ (i < 4 \/ GOutside(i - 4))) =>
                      At(out_file.data, i) = At(data_enc_orig, i)

C8_Witness ==
    /\ fam = "game" /\ out_file.written
    /\ out_file.data # data_enc_orig
    /\ \E i \in 4..(Len(data_enc_orig) - 1) : GOutside(i) /\ GOutside(i - 4)
    /\ \E i \in 4..(Len(data_enc_orig) - 1) : GOutside(i) /\ ~GOutside(i - 4)

\* C9: for every manifest entry the repack loop has taken: if the
\* replacement compressed in the recorded mode fits, the working buffer
\* holds it at start, followed by zero bytes up to start + consumed;
\* otherwise the slot holds the original decoded bytes; the buffer keeps
\* its length and the loop takes every entry before it finishes.
C9_PerEntry ==
    (fam = "game" /\ pc \in {"entries", "done"}) =>
        /\ Len(decoded) = Len(data_enc_orig)
        /\ Len(greps) = eidx
        /\ pc = "done" => eidx = Len(entries)
        /\ \A k \in 1..Len(greps) :
              LET e == entries[k]
                  g == greps[k]
              IN  /\ g.status = "repacked" =>
                        /\ Len(g.comp) <= e.consumed
                        /\ Slice(decoded, e.start, e.start + Len(g.comp)) = g.comp
                        /\ Slice(decoded, e.start + Len(g.comp), e.start + e.consumed)
                              = Zeros(e.consumed - Len(g.comp))
                  /\ g.status = "skipped" => Len(g.comp) > e.consumed
                  /\ g.status # "repacked" =>
                        Slice(decoded, e.start, e.start + e.consumed)
                            = Slice(xor_decode_with_feedback(data_enc_orig),
                                    e.start, e.start + e.consumed)

C9_Witness ==
    /\ fam = "game" /\ pc = "done" /\ out_file.written
    /\ Len(greps) = 2
    /\ greps[1].status = "skipped"
    /\ greps[2].status = "repacked" /\ Len(greps[2].comp) < entries[2].consumed

\* C11: the segments find_dat_files returns are in strictly increasing
\* position, each starts with the DAT magic and has size >= 4, each ends
\* where the next starts, and the last ends at the marker offset D.
C11_SegmentsTile ==
    (fam \in {"unpack", "zsdic"} /\ pc \in {"loop", "done"}) =>
        LET D == Find(pak_file, DICT_MARKER, 0)
            n == Len(dat_files)
        IN  /\ \A k \in 1..n :
                  /\ dat_files[k].index = k - 1
                  /\ dat_files[k].size >= 4
                  /\ Slice(pak_file, dat_files[k].position, dat_files[k].position + 4)
                        = DAT_MAGIC
                  /\ dat_files[k].data
                        = Slice(pak_file, dat_files[k].position,
                                dat_files[k].position + dat_files[k].size)
                  /\ dat_files[k].position + dat_files[k].size
                        = IF k < n THEN dat_files[k + 1].position ELSE D
            /\ n > 0 => dat_files[1].position = Find(pak_file, DAT_MAGIC, 0)
            /\ n = 0 => Find(Slice(pak_file, 0, D), DAT_MAGIC, 0) = -1

C11_Witness ==
    /\ fam = "unpack" /\ pc = "loop"
    /\ Len(dat_files) = 2
    /\ dat_files[1].size > 4
    /\ dat_files[2].size = 4

\* struct.unpack('<I', b)
UnpackLE32(b) == b[1] + 256 * b[2] + 65536 * b[3] + 16777216 * b[4]

\* bytes that are a sequence of complete skippable frames: magic, length n
\* no larger than the cap, n zero bytes
RECURSIVE ParsesAsFrames(_)
ParsesAsFrames(b) ==
    IF b = <<>> THEN TRUE
    ELSE /\ Len(b) >= 8
         /\ Slice(b, 0, 4) = SKIP_MAGIC
         /\ LET n == UnpackLE32(Slice(b, 4, 8))
            IN  /\ n <= FRAME_CAP
                /\ Len(b) >= 8 + n
                /\ Slice(b, 8, 8 + n) = Zeros(n)
                /\ ParsesAsFrames(Slice(b, 8 + n, Len(b)))

\* C12: for every pad_len > 0 the bytes add_skippable_padding appends are
\* one or more complete skippable frames with nothing left over.
C12_PaddingWellFormed ==
    (fam = "call" /\ pc = "returned" /\ args.f = "add_skippable_padding"
        /\ args.pad_len > 0) =>
        LET tail == Slice(ret.data, Len(args.compressed), Len(ret.data))
        IN  /\ Slice(ret.data, 0, Len(args.compressed)) = args.compressed
            /\ tail # <<>>
            /\ ParsesAsFrames(tail)

\* C13: keyed FeedbackXOR round trip: xor_feedback_block applied to the
\* bytes the encoding loop of repack_mini_obb produces from (p, key) returns
\* p, for every chunk size.
C13_KeyedRoundTrip ==
    (fam = "call" /\ pc = "returned" /\ args.f = "keyed_round_trip") =>
        /\ ret.dec = args.p
        /\ Len(ret.enc) = Len(args.p)

C13_Witness ==
    /\ fam = "call" /\ pc = "returned" /\ args.f = "keyed_round_trip"
    /\ Len(args.p) > 4 /\ args.chunk_size = 3
    /\ args.key # Zeros(4)
    /\ ret.enc # args.p
    /\ ret.enc # xor_feedback_block_Static(args.p, args.key)

\* C14: Scenario A: for a table entry and a 4-byte plaintext p, encoding p
\* and decoding the result returns p whatever bytes follow the window; and
\* for every ciphertext c and suffix t the first len(c) bytes of
\* decode(c ++ t) equal decode(c).
C14_ScenarioA ==
    /\ (fam = "call" /\ pc = "returned" /\ args.f = "scenario_a") =>
          Slice(ret.dec, 0, Len(args.p)) = args.p
    /\ (fam = "call" /\ pc = "returned" /\ args.f = "decode_prefix") =>
          Slice(ret.whole, 0, Len(args.c)) = ret.alone

\* a write of the zsdic loop body on working buffer w
ZWrite(w, stem, edited_data) == RepackFile(w, dat_files, dictionary, stem, edited_data)

\* a write of the mini_obb loop body on temporary file w
MWrite(w, stem, modified_content) ==
    RepackUexp(w, original_data, offsets, stem, modified_content)

\* buffers a and b agree at every offset outside [lo, hi)
SameOutside(a, b, lo, hi) ==
    /\ Len(a) = Len(b)
    /\ \A k \in 0..(Len(a) - 1) : (k < lo \/ k >= hi) => At(a, k) = At(b, k)

\* two zsdic writes to distinct segments, applied to w in either order
ZCommute(w) ==
    \A s1 \in ZStems, e1 \in ZPayloads, s2 \in ZStems, e2 \in ZPayloads :
        \E a \in {ZWrite(w, s1, e1)}, b \in {ZWrite(w, s2, e2)} :
            (a.index # b.index) =>
                ZWrite(a.pak_data, s2, e2).pak_data = ZWrite(b.pak_data, s1, e1).pak_data

\* two mini_obb writes to distinct blocks, applied to w in either order
MCommute(w) ==
    \A s1 \in MStems, e1 \in MPayloads, s2 \in MStems, e2 \in MPayloads :
        \E a \in {MWrite(w, s1, e1)}, b \in {MWrite(w, s2, e2)} :
            (a.start # b.start) =>
                MWrite(a.temp_output, s2, e2).temp_output
                    = MWrite(b.temp_output, s1, e1).temp_output

RootCommute ==
    /\ (fam = "zsdic" /\ pc = "loop" /\ zseen = {}) =>
          /\ dictionary = find_dictionary(pak_file).dictionary
          /\ dat_files = find_dat_files(pak_file, find_dictionary(pak_file).dict_pos)
          /\ ZCommute(pak_data)
    /\ (fam = "mini" /\ pc = "loop" /\ mseen = {}) =>
          /\ offsets = find_all_occurrences(original_data, signature)
          /\ MCommute(temp_output)

WriteAsOnOriginal ==
    /\ (fam = "zsdic" /\ zseen' # zseen) =>
          /\ UNCHANGED <<dictionary, dat_files, pak_file>>
          /\ IF zlast'.status = "replaced"
             THEN LET original_dat == dat_files[zlast'.index + 1]
                  IN  /\ Len(zlast'.payload) = original_dat.size - 4
                      /\ ZSpan(pak_data', zlast'.index)
                            = NewDatBlock(zlast'.payload,
                                          Last4(ZSpan(pak_file, zlast'.index)))
                      /\ SameOutside(pak_data', pak_data, original_dat.position,
                                     original_dat.position + original_dat.size)
             ELSE pak_data' = pak_data
    /\ (fam = "mini" /\ mseen' # mseen) =>
          /\ UNCHANGED <<offsets, original_data>>
          /\ IF mlast'.status = "written"
             THEN LET start == PyIndex(offsets, mlast'.index).val
                      end == IF mlast'.index + 1 < Len(offsets)
                             THEN PyIndex(offsets, mlast'.index + 1).val
                             ELSE Len(original_data)
                      key == find_xor_key(Slice(original_data, start, start + 4),
                                          expected_magic)
                  IN  /\ mlast'.start = start /\ mlast'.size = end - start
                      /\ Slice(temp_output', start, end)
                            = EncodeBlock(mlast'.content, key, CHUNK_SIZE)
                      /\ SameOutside(temp_output', temp_output, start, end)
             ELSE temp_output' = temp_output

\* C15: every write of a session takes its position, size, trailer and
\* key from the index computed on the original container (the index and
\* the dictionary never change during the loop), stores its block in its
\* own span and changes nothing else; hence two writes to distinct
\* segments give the same container in either order.
C15_WritesCommute == []RootCommute /\ [][WriteAsOnOriginal]_vars

C15_Witness ==
    /\ fam = "zsdic" /\ pc = "loop"
    /\ Cardinality(zwritten) = 2
    /\ \A k \in 1..Len(dat_files) : (k - 1) \in zwritten =>
          ZSpan(pak_data, k - 1) # ZSpan(pak_file, k - 1)

OutOfRangeRejected ==
    /\ (fam = "zsdic" /\ zseen' # zseen
            /\ zlast'.index \notin 0..(Len(dat_files) - 1)) =>
          /\ zlast'.status # "replaced"
          /\ pak_data' = pak_data
          /\ pc' = "loop"
    /\ (fam = "mini" /\ mseen' # mseen
            /\ mlast'.index \notin 0..(Len(offsets) - 1)) =>
          /\ mlast'.status # "written"
          /\ temp_output' = temp_output
          /\ pc' = "loop"

\* C16: a write whose segment index is negative or >= the number of
\* segments is rejected, changes no byte of the working container, and the
\* loop goes on with the remaining requests.
C16_IndexOutOfRange == [][OutOfRangeRejected]_vars

\* some level of 1..22 compresses data to at most target_size bytes
SomeLevelFits(data, target_size) ==
    \E level \in 1..22 :
        LET c == ZstdCompress(data, level, NoBytes)
        IN  ~c.raised /\ Len(c.data) <= target_size

\* C17: compress_to_target_size returns a fitted result whenever some level
\* of 1..22 fits, and None only when no level of 1..22 fits.
C17_DescendingFindsFit ==
    (fam = "call" /\ pc = "returned" /\ args.f = "compress_to_target_size") =>
        /\ SomeLevelFits(args.data, args.target_size) =>
              (ret.kind = "ok" /\ Len(ret.data) = args.target_size)
        /\ ret.kind = "none" => ~SomeLevelFits(args.data, args.target_size)

\* C18 as stated: the dictionary is the 1,048,576 bytes that follow the
\* 4-byte marker.
C18_Original ==
    (fam \in {"unpack", "zsdic"} /\ pc \in {"loop", "done"}) =>
        LET D == Find(pak_file, DICT_MARKER, 0)
        IN  dictionary = Slice(pak_file, D + 4, D + 4 + DICT_SIZE)

\* C18: whenever the marker is found at offset D, the dictionary is the
\* bytes of the container from D on, the marker included, at most
\* 1,048,576 of them; it is saved once and the same byte string is used for
\* every segment of the session.
C18_DictionaryFromMarker ==
    (fam \in {"unpack", "zsdic"} /\ pc \in {"loop", "done"}) =>
        LET D == Find(pak_file, DICT_MARKER, 0)
        IN  /\ D >= 0
            /\ dictionary = Slice(pak_file, D, D + DICT_SIZE)
            /\ Slice(dictionary, 0, 4) = DICT_MARKER
            /\ fam = "unpack" =>
                  /\ dict_file = Written(dictionary)
                  /\ \A k \in 1..Len(unpack_files) : unpack_files[k].dict = dictionary

C18_Witness ==
    /\ fam = "unpack" /\ pc = "done"
    /\ Len(unpack_files) = 2
    /\ Len(dictionary) > 4

\* C19: when the dictionary marker (zsdic) or the block signature
\* (mini_obb) does not occur in the container, the unpack or repack fails:
\* no segment is read or written and no output container is written.
C19_NotFoundFatal ==
    /\ (fam \in {"zsdic", "unpack"} /\ Find(pak_file, DICT_MARKER, 0) = -1) =>
          /\ pc \in {"open", "failed"}
          /\ dat_files = <<>> /\ zseen = {} /\ zwritten = {}
          /\ uidx = 0 /\ unpack_files = <<>> /\ dict_file = NotWritten
          /\ ~out_file.written
    /\ (fam = "mini" /\ Find(original_data, signature, 0) = -1) =>
          /\ pc \in {"open", "failed", "done"}
          /\ offsets = <<>> /\ mseen = {} /\ mwritten = {}
          /\ temp_output = NoBytes
          /\ ~out_file.written
    /\ pc = "failed" =>
          \/ fam \in {"zsdic", "unpack"} /\ Find(pak_file, DICT_MARKER, 0) = -1
          \/ fam = "mini" /\ Find(original_data, signature, 0) = -1
          \/ fam = "unpack" /\ uidx < Len(dat_files)

C19_Witness ==
    /\ fam = "unpack" /\ pc = "failed"
    /\ Find(pak_file, DAT_MAGIC, 0) # -1
    /\ Find(pak_file, DICT_MARKER, 0) = -1

\* the bytes the decoder produced before it stopped
Produced(f, outcome) ==
    IF f = "decompress_dat" THEN outcome.read \o outcome.partial ELSE outcome.produced

\* C20: for every input decompress does not raise to its caller and
\* returns exactly the bytes the decoder produced before it stopped; the
\* unpack loop writes every result, the empty one included, as a file.
C20_TolerantDecompress ==
    /\ (fam = "call" /\ pc = "returned"
            /\ args.f \in {"decompress_zstd", "decompress_dat"}) =>
          /\ ~ret.raised
          /\ ret.data = Produced(args.f, args.outcome)
    /\ (fam = "unpack" /\ pc \in {"loop", "done"}) =>
          \A k \in 1..Len(unpack_files) :
              unpack_files[k].data = Produced("decompress_dat", unpack_files[k].outcome)

\* C5: after every successful write of a zsdic segment the last 4 bytes of
\* its span in the working container, and in the container written out,
\* are the last 4 bytes of the same span of the original.
C5_TrailerPassThrough ==
    fam = "zsdic" =>
        \A idx \in zwritten :
            /\ Last4(ZSpan(pak_data, idx)) = Last4(ZSpan(pak_file, idx))
            /\ out_file.written => Last4(ZSpan(out_file.data, idx)) = Last4(ZSpan(pak_file, idx))

C5_Witness ==
    /\ fam = "zsdic" /\ out_file.written /\ zwritten # {}
    /\ \E idx \in zwritten : ZSpan(out_file.data, idx) # ZSpan(pak_file, idx)

\* C10: every byte outside the spans of the successfully written segments
\* is the byte of the original container, in the working container and in
\* the container written out.
ZOutside(i) ==
    \A idx \in zwritten :
        i < dat_files[idx + 1].position
        \/ i >= dat_files[idx + 1].position + dat_files[idx + 1].size

C10_OnlyOwnSpan ==
    (fam = "zsdic" /\ pc \in {"loop", "done"}) =>
        /\ Len(pak_data) = Len(pak_file)
        /\ \A i \in 0..(Len(pak_file) - 1) :
              ZOutside(i) => At(pak_data, i) = At(pak_file, i)
        /\ out_file.written => out_file.data = pak_data

C10_Witness ==
    /\ fam = "zsdic" /\ out_file.written /\ Cardinality(zwritten) = 1
    /\ Len(dat_files) = 2
    /\ out_file.data # pak_file

\* C21: the static XOR is an involution: xor_decrypt applied twice returns
\* the byte string it started from, and every application keeps the length.
C21_StaticInvolution ==
    (fam = "call" /\ args.f = "xor_decrypt") =>
        /\ pc \in {"encoded", "returned"} => Len(ret.once) = Len(args.d)
        /\ pc = "returned" => ret.twice = args.d

C21_Witness ==
    /\ fam = "call" /\ pc = "returned" /\ args.f = "xor_decrypt"
    /\ Len(args.d) = 3
    /\ ret.once # args.d
    /\ ret.twice = args.d

\* the step is the UPDATE half of a /api/validate request
BindStep == \E c \in Clients : reqs[c] # NoRequest /\ reqs'[c] = NoRequest

\* the step is the SELECT half of a /api/validate request
ReadStep == last'.op = "validate" /\ ~BindStep

AdminOps == {"generate", "keys", "revoke", "activate", "delete"}

\* a step of a request without the password: an admin endpoint answers 401
\* and changes nothing; /api/validate changes at most the NULL hwid of an
\* active row into the presented hwid
GatedStep ==
    /\ (last'.op \in AdminOps /\ ~last'.authed) =>
          /\ last'.status = 401 /\ ~last'.ok
          /\ licenses' = licenses
    /\ (last'.op = "validate" /\ licenses' # licenses) =>
          \E r \in licenses, h \in Hwids \ {""} :
              /\ r.hwid = NULL /\ r.active = 1
              /\ licenses' = (licenses \ {r}) \cup {[r EXCEPT !.hwid = h]}

\* C22: a request to an admin endpoint whose password is not ADMIN_PASSWORD
\* is answered success=False with status 401 and leaves the table unchanged;
\* the only change a request without the password makes is /api/validate
\* setting the NULL hwid of an existing active key to the presented hwid.
C22_AdminGated == [][GatedStep]_vars

\* at most one non-empty HWID was answered valid=True for each key
OneHwidGranted == \A k \in GenKeys : Cardinality(granted[k]) <= 1

\* a /api/validate step leaves a stored non-NULL hwid as it is
BoundHwidKept ==
    last'.op = "validate" =>
        \A r \in licenses : r.hwid # NULL => r \in licenses'

\* C23: for each key, over every interleaving of /api/validate requests, at
\* most one non-empty HWID is ever answered valid=True while the key's row
\* exists, and no validate changes a stored hwid that is not NULL.
C23_ExclusiveBinding == []OneHwidGranted /\ [][BoundHwidKept]_vars

\* a validate that reads after a revoke or delete of the key it presents
\* has completed is answered valid=False; one answered valid=True read an
\* active row
LateValidate ==
    ReadStep =>
        /\ (last'.ok \/ ~last'.sent) =>
              \E r \in licenses : r.license_key = strip(last'.key) /\ r.active = 1
        /\ (last'.key \in DOMAIN barred /\ barred[last'.key] # "no") =>
              last'.sent /\ ~last'.ok

\* C29: /api/validate answers valid=True only if its read finds a row of the
\* key with active=1; after a revoke or a delete of a key has completed
\* every later validate of that key is answered valid=False, until an
\* activate of the key after a revoke and for ever after a delete.
C29_RevokedNeverValid == [][LateValidate]_vars

\* the step of a /api/revoke or /api/activate with the password: only the
\* active flag of the named row changes
FlagOnly ==
    (last'.op \in {"revoke", "activate"} /\ last'.authed) =>
        /\ last'.ok /\ last'.status = 200
        /\ Cardinality(licenses') = Cardinality(licenses)
        /\ \A r \in licenses :
              IF r.license_key = last'.key
              THEN [r EXCEPT !.active = IF last'.op = "revoke" THEN 0 ELSE 1] \in licenses'
              ELSE r \in licenses'
        /\ Select(licenses, last'.key) = {} => licenses' = licenses

\* C30: /api/revoke and /api/activate with the password change only the
\* active flag of the named key: its other columns and every other row stay
\* as they are, and when no row has the key the table is unchanged and the
\* answer is still success=True.
C30_FlagOnly == [][FlagOnly]_vars

C30_Witness ==
    /\ fam = "server" /\ last.op = "revoke" /\ last.authed /\ last.ok
    /\ \E r \in licenses : r.license_key = last.key /\ r.active = 0 /\ r.hwid = "h1"
    /\ \E r \in licenses : r.license_key = KeyB /\ r.active = 1

\* level fits: compressing at it does not raise and its output is at most
\* required_size long
LevelFits(edited_data, dict, required_size, level) ==
    \E r \in {ZstdCompress(edited_data, level, dict)} :
        ~r.raised /\ Len(r.data) <= required_size

\* C24: ascending first fit: the payload spliced into the container is the
\* output of the smallest level L in 1..22 whose compressed length is at
\* most required_size; no level above L is tried; a level that raises is
\* skipped and the search goes on.
C24_AscendingFirstFit ==
    (fam = "call" /\ pc = "returned" /\ args.f = "repack_file") =>
        \E seg \in {ret.dat_files[ret.index + 1]} :
        \E fitting \in {{ L \in 1..22 :
                            LevelFits(args.edited_data, ret.dictionary, seg.size - 4, L) }} :
            /\ (fitting = {}) <=> (ret.status = "overflow")
            /\ (fitting = {}) => ret.tried = 1..22
            /\ (fitting # {}) =>
                  \E L \in fitting :
                      /\ \A M \in fitting : L <= M
                      /\ ret.status = "replaced"
                      /\ ret.level = L
                      /\ ret.tried = 1..L
                      /\ Slice(ret.pak_data, seg.position, seg.position + seg.size) =
                            NewDatBlock(
                                ZeroPad(ZstdCompress(args.edited_data, L,
                                                     ret.dictionary).data, seg.size - 4),
                                Last4(seg.data))

\* the search passed a level that raised and one that was too large
C24_Witness ==
    /\ fam = "call" /\ pc = "returned" /\ args.f = "repack_file"
    /\ ret.status = "replaced" /\ ret.level = 3
    /\ args.edited_data.bad = 1
    /\ ret.pak_data # args.pak

\* the number of bytes of c that precede its first signature occurrence
BeforeFirstSig(c) ==
    IF Find(c, SigBytes, 0) = -1 THEN Len(c) ELSE Find(c, SigBytes, 0)

\* C25: re-encoding an unmodified decode is the identity:
\* xor_reencode_from_original(c, xor_decode_with_feedback(c)) = c, and both
\* functions copy unchanged every byte before the first signature of c.
C25_ReencodeIdentity ==
    (fam = "call" /\ pc = "returned" /\ args.f = "reencode_identity") =>
        /\ ret.enc = args.c
        /\ \E n \in {BeforeFirstSig(args.c)} :
              /\ SubSeq(ret.dec, 1, n) = SubSeq(args.c, 1, n)
              /\ SubSeq(ret.enc_edited, 1, n) = SubSeq(FlipAll(ret.dec), 1, n)

\* a signature after one plain byte, a window long enough for the feedback
C25_Witness ==
    /\ fam = "call" /\ pc = "returned" /\ args.f = "reencode_identity"
    /\ Len(args.c) = MaxIdLen
    /\ Find(args.c, SigBytes, 0) = 1
    /\ ret.dec # args.c
    /\ ret.enc = args.c

\* the positions and sizes of the segments of a list of find_dat_files
Layout(dats) ==
    [k \in 1..Len(dats) |-> [position |-> dats[k].position, size |-> dats[k].size]]

\* C26: after any sequence of successful zsdic segment writes,
\* find_dictionary and find_dat_files on the patched container return the
\* dictionary offset and the segment positions and sizes of the original.
C26_IndexStable ==
    (fam = "zsdic" /\ pc \in {"loop", "done"}) =>
        \E d \in {find_dictionary(pak_data)} :
            /\ d.found
            /\ d.dict_pos = find_dictionary(pak_file).dict_pos
            /\ Layout(find_dat_files(pak_data, d.dict_pos)) = Layout(dat_files)

\* C27: in a unified repack a name that both edited sets hold is written
\* with the Headshot file's content, and each segment index is written at
\* most once.
C27_UnifiedPrecedence ==
    (fam = "call" /\ pc = "returned" /\ args.f = "repack_unified_zsdic") =>
        /\ \A k \in 1..Len(ret.writes) :
              (ret.writes[k].stem \in Names(args.modskin) \cap Names(args.headshot)) =>
                  SubSeq(ret.writes[k].payload, 1, 5) = HeadshotData.small
        /\ \A j, k \in 1..Len(ret.writes) :
              j # k => ret.writes[j].index # ret.writes[k].index

\* a pass of the scan loop that goes on moves the position forward
ScanAdvances ==
    (fam = "game" /\ pc = "scan" /\ pc' = "scan") =>
        /\ pos' > pos
        /\ iterations' = iterations + 1

\* the passes made so far fit in the buffer
ScanBounded ==
    fam = "game" => (iterations <= Len(decoded) /\ pos <= Len(decoded))

\* the scan loop ends and the manifest is written
ScanEnds == (fam = "game" /\ pc = "scan") ~> (pc = "manifest")

\* the scan under the scheduling of a sequential program: a loop pass
\* that can run does run
SpecGameScan == SpecGame /\ WF_vars(GScanStep)

\* C28: the heuristic scan terminates on every finite buffer: every pass of
\* the loop moves the scan position strictly forward (past the consumed span
\* after an accepted stream, to candidate + 1 after a rejected candidate), so
\* the loop ends after at most len(buffer) passes and the manifest is written.
C28_ScanTerminates == []ScanBounded /\ [][ScanAdvances]_vars /\ ScanEnds

\* the scan has ended after an accepted stream and a rejected candidate
C28_Witness ==
    /\ fam = "game" /\ pc = "manifest"
    /\ Len(entries) >= 1
    /\ iterations > Len(entries)

====
